---------------------------- MODULE Spec2Model ----------------------------
(***************************************************************************)
(* A model of umapper: graph construction from k-NN data (edge builder,    *)
(* symmetrizer, graph assembler) and the SGD layout loop (runLayout).      *)
(*                                                                         *)
(* Numbers.  JavaScript numbers are modelled in fixed point:               *)
(*   - a directed strength / neighbor weight w is the integer w * Unit     *)
(*     (Unit = 1000, so the floor 0.001 of the edge builder is 1);         *)
(*   - a symmetrized strength s is the integer s * Unit * Unit, which      *)
(*     keeps a + b - a*b and a*b exact.                                    *)
(* Strings.  An id is a sequence of one-character strings, so that the     *)
(* template literals `${source}:${target}` are real concatenations and     *)
(* the comparison source < target is the lexicographic comparison of       *)
(* code units.                                                             *)
(***************************************************************************)
EXTENDS Integers, Sequences, FiniteSets, TLC

VARIABLES
    symIn,      \* symmetrizeEdges: the directed edge list passed in
    symMode,    \* symmetrizeEdges: the mode passed in
    symOut,     \* symmetrizeEdges: the returned list
    symPc,      \* "off" | "ready" | "done"
    knn,        \* the k-NN graph: a Map, as the sequence of its entries [id, neighbors]
    gK,         \* the k passed to neighborhoodsToEdges / the options.k of buildGraph
    gMode,      \* options.symmetryMode of buildGraph
    gDirected,  \* the directed edges neighborhoodsToEdges returned
    gEdges,     \* the edges buildGraph returned
    gPc,        \* "off" | "ready" | "edgesDone" | "graphDone"
    kCalls,     \* the number of calls buildGraph made of a function options.k
    wIn,        \* applyWeightSpaceScaling: the neighbor list passed in
    wK,         \* applyWeightSpaceScaling: the k passed in
    wOut,       \* applyWeightSpaceScaling: the returned list
    wSigma,     \* applyWeightSpaceScaling: the sigma calibrateSigma returned
    wPc,        \* "off" | "ready" | "done"
    initialPositions, \* umapLayout: options.initialPositions, when given
    uPc,        \* "off" | "ready" | "called"
    inNodes,    \* runLayout: the nodes argument
    inEdges,    \* runLayout: the edges argument
    options,    \* runLayout: the options argument, a record of the options given
    sgdNodes,   \* runLayout: the internal copy of the nodes
    preparedEdges,   \* runLayout: the reindexed edges
    locals,     \* runLayout: the constants derived before the loop
    epoch,      \* the loop counter
    edgeIndex,  \* the index i of the attractive and of the repulsive edge loop
    sampleCount,     \* the index n of the negative-sample loop
    cancelled,  \* the cancellation flag
    lastMessageTime, \* the time of the last qualifying checkpoint
    updateCount,     \* the number of qualifying checkpoints
    result,     \* the value the callback returned, while its block is executing
    clock,      \* the last value Date.now() returned
    pc,         \* "off" | "called" | "loop" | "attract" | "repulse" | "progress" |
                \* "awaitProgress" | "periodic" | "awaitPeriodic" | "return" | "resolved"
    resolved,   \* the value the promise resolved to
    calls,      \* the invocations of onProgress, in order
    checkpoints,     \* the qualifying checkpoints, in order
    updates,    \* the force updates applied, in order
    suspensions,     \* the awaits at which the run was suspended, in order
    sgdNodeCount,    \* the schedule of runLayout: sgdNodes.length
    preparedEdgeCount,    \* the schedule of runLayout: preparedEdges.length
    epochLog,   \* the alpha, the stride and the offset of the epochs, in order
    sampled,    \* the pairs of an epoch and the index of an edge its repulsive loop visited
    search,     \* calibrateSigma: iter, lo, hi, mid, the passes made and the position
    forceCall,  \* the force updates called directly, in order
    heap,       \* two runs on one array: the node objects and the arrays, by reference
    given,      \* two runs on one array: the arguments nodes and edges of both calls
    runs,       \* two runs on one array: the local variables and position of each run
    handed,     \* two runs on one array: the arrays passed to onProgress or resolved to
    turn        \* two runs on one array: the run that is executing, or 0 when none is

symVars == <<symIn, symMode, symOut, symPc>>
graphVars == <<knn, gK, gMode, gDirected, gEdges, gPc, kCalls>>
scaleVars == <<wIn, wK, wOut, wSigma, wPc>>
umapVars == <<initialPositions, uPc>>
layoutVars == <<inNodes, inEdges, options, sgdNodes, preparedEdges, locals, epoch, edgeIndex,
                sampleCount, cancelled, lastMessageTime, updateCount, result, clock, pc,
                resolved, calls, checkpoints, updates, suspensions>>

schedVars == <<sgdNodeCount, preparedEdgeCount, epochLog, sampled>>

searchVars == <<search>>
forceVars == <<forceCall>>
sharedVars == <<heap, given, runs, handed, turn>>

vars == <<symVars, graphVars, scaleVars, umapVars, layoutVars, schedVars, searchVars,
          forceVars, sharedVars>>

(***************************************************************************)
(* Strings                                                                 *)
(***************************************************************************)

\* UTF-16 code unit of the characters the ids use.
CharCode(c) ==
    CASE c = ":" -> 58
      [] c = "a" -> 97
      [] c = "b" -> 98
      [] c = "c" -> 99
      [] c = "z" -> 122

\* s < t on JavaScript strings: lexicographic on code units, a proper prefix is smaller.
RECURSIVE StrLess(_, _)
StrLess(s, t) ==
    IF t = <<>> THEN FALSE
    ELSE IF s = <<>> THEN TRUE
    ELSE IF CharCode(Head(s)) # CharCode(Head(t))
         THEN CharCode(Head(s)) < CharCode(Head(t))
         ELSE StrLess(Tail(s), Tail(t))

\* The template literal `${x}:${y}`.
KeyOf(x, y) == x \o <<":">> \o y

(***************************************************************************)
(* Arithmetic                                                              *)
(***************************************************************************)

\* Directed strengths and weights are counted in units of 0.001.
Unit == 1000

RECURSIVE SqrtSearch(_, _, _)
SqrtSearch(n, lo, hi) ==
    IF lo >= hi THEN lo
    \* mid and the argument are bound as values, so that each is computed once
    ELSE CHOOSE root \in { IF mid * mid <= sq THEN SqrtSearch(sq, mid, hi)
                                               ELSE SqrtSearch(sq, lo, mid - 1) :
                            mid \in { (lo + hi + 1) \div 2 }, sq \in { n } } : TRUE

\* Math.sqrt on a product of two directed strengths, rounded down to 0.001.
Sqrt(n) == SqrtSearch(n, 0, Unit)

(***************************************************************************)
(* Bounds of the inputs                                                    *)
(***************************************************************************)

\* Most neighbors of a point, and the largest neighbor distance.
MaxNeighbors == 2
MaxDistance == 1

\* Most neighbors in a list passed to applyWeightSpaceScaling directly, and the largest
\* distance in it.
MaxScaled == 3
MaxScaledDistance == 3

\* Most direct calls of the force updates on one array of nodes.
MaxForceCalls == 2

\* Most points of a k-NN graph, most epochs of a layout, and most prepared edges, the
\* node counts and the alphas given as options of the runs whose schedule is followed.
MaxPoints == 2
MaxEpochs == 6
MaxEdgeCount == 3
ScheduleNodeCounts == { 2, 3, 36 } \cup { 1000 + 500 * j : j \in 0..16 } \cup { 20000 }
ScheduleAlphas == { 100, 200, 900, 1000 }

BoundedSeq(S, n) == UNION { [1..m -> S] : m \in 0..n }

\* The k values passed as numbers: Math.log2 gives -Infinity, 1 and log2(3).
KValues == {0, 2, 3}

\* The non-empty ascending distance lists and the k for which SigmaTable is computed:
\* KValues, NaN (k < 0), the default calculateK gives (6) and up to 8.
TabDistanceLists ==
    { ds \in BoundedSeq(0..MaxDistance, MaxNeighbors)
                \cup BoundedSeq(0..MaxScaledDistance, MaxScaled) :
        Len(ds) > 0 /\ \A j \in 1..(Len(ds) - 1) : ds[j] <= ds[j + 1] }
TabK == -1..8

(***************************************************************************)
(* Floating point for the sigma search.  lo, hi and mid of calibrateSigma  *)
(* are kept as m * 2^e with a mantissa of MantBits bits (a double has 53)  *)
(* and the exponent range of a double, so that 64 halvings or doublings    *)
(* neither reach 0 nor Infinity, exactly as in the program.                *)
(***************************************************************************)

MantBits == 8
MinExp == -1074
MaxExp == 1023

FZero == [m |-> 0, e |-> 0]
FInf  == [m |-> -1, e |-> 0]
FOne  == [m |-> 2^(MantBits - 1), e |-> -(MantBits - 1)]

IsFinite(x) == x.m >= 0
IsZero(x)   == x.m = 0

\* Exponent of the leading bit of a normalised value.
LeadExp(x) == x.e + MantBits - 1

\* Round m * 2^e to MantBits bits (towards zero); overflow gives Infinity, underflow 0.
RECURSIVE FNorm(_, _)
FNorm(m, e) ==
    IF m = 0 THEN FZero
    ELSE IF m >= 2^MantBits THEN FNorm(m \div 2, e + 1)
    ELSE IF m < 2^(MantBits - 1) THEN FNorm(m * 2, e - 1)
    ELSE IF e + MantBits - 1 > MaxExp THEN FInf
    ELSE IF e + MantBits - 1 < MinExp THEN FZero
    ELSE [m |-> m, e |-> e]

\* mid *= 2.0
FDouble(x) == FNorm(x.m, x.e + 1)

\* (lo + hi) / 2.0 for finite lo, hi
FMid(lo, hi) ==
    IF IsZero(lo) THEN FNorm(hi.m, hi.e - 1)
    ELSE IF IsZero(hi) THEN FNorm(lo.m, lo.e - 1)
    ELSE LET e0 == IF lo.e < hi.e THEN lo.e ELSE hi.e
         IN  FNorm(lo.m * 2^(lo.e - e0) + hi.m * 2^(hi.e - e0), e0 - 1)

\* Math.exp(-q / 8) in units of 0.001, for q = 0 .. 61 (0 from q = 61 on).
ExpTable ==
    << 1000, 882, 779, 687, 607, 535, 472, 417, 368, 325, 287, 253,
       223, 197, 174, 153, 135, 119, 105, 93, 82, 72, 64, 56,
       50, 44, 39, 34, 30, 27, 24, 21, 18, 16, 14, 13,
       11, 10, 9, 8, 7, 6, 5, 5, 4, 4, 3, 3,
       2, 2, 2, 2, 2, 1, 1, 1, 1, 1, 1, 1,
       1, 0 >>

\* Math.exp(-d / mid) in units of 0.001, for an integer d > 0 and a finite mid > 0:
\* linear interpolation of ExpTable at x = d / mid.
ExpNeg(d, mid) ==
    IF LeadExp(mid) >= 14 THEN Unit
    ELSE IF LeadExp(mid) <= -8 THEN 0
    ELSE LET num == 8 * d * (IF mid.e < 0 THEN 2^(-mid.e) ELSE 1)
             den == mid.m * (IF mid.e > 0 THEN 2^(mid.e) ELSE 1)
             q   == num \div den
         IN  IF q >= 61 THEN 0
             ELSE ExpTable[q + 1] - ((ExpTable[q + 1] - ExpTable[q + 2]) * (num % den)) \div den

(***************************************************************************)
(* calibrateSigma and applyWeightSpaceScaling                              *)
(***************************************************************************)

\* Math.log2(k) in units of 0.001: -Infinity for k = 0, NaN for k < 0.
Log2(k) ==
    CASE k < 0 -> [kind |-> "nan", v |-> 0]
      [] k = 0 -> [kind |-> "negInf", v |-> 0]
      [] k = 1 -> [kind |-> "num", v |-> 0]
      [] k = 2 -> [kind |-> "num", v |-> 1000]
      [] k = 3 -> [kind |-> "num", v |-> 1585]
      [] k = 4 -> [kind |-> "num", v |-> 2000]
      [] k = 5 -> [kind |-> "num", v |-> 2322]
      [] k = 6 -> [kind |-> "num", v |-> 2585]
      [] k = 7 -> [kind |-> "num", v |-> 2807]
      [] k = 8 -> [kind |-> "num", v |-> 3000]

MaxIterations == 64
\* tolerance = 1e-5 = 1 / ToleranceInv
ToleranceInv == 100000

Abs(x) == IF x < 0 THEN -x ELSE x

\* The inner loop: the sum of membership strengths at sigma = mid, in units of 0.001.
RECURSIVE MembershipSum(_, _, _, _)
MembershipSum(neighbors, rho, mid, j) ==
    IF j > Len(neighbors) THEN 0
    ELSE LET d == neighbors[j].distance - rho
         IN  (IF d > 0 THEN ExpNeg(d, mid) ELSE Unit)
                 + MembershipSum(neighbors, rho, mid, j + 1)

\* Math.abs(psum - target) < tolerance
Converged(psum, target) ==
    target.kind = "num" /\ Abs(psum - target.v) * ToleranceInv < Unit

\* psum > target
Above(psum, target) ==
    CASE target.kind = "num"    -> psum > target.v
      [] target.kind = "negInf" -> TRUE
      [] OTHER                  -> FALSE

\* The loop test with <= for <.
HasIterationInclusive(iter) == iter <= MaxIterations

\* iter < maxIterations
HasIteration(iter) == iter < MaxIterations

\* The body of the for loop of calibrateSigma, lines 34-65: lo, hi and mid after it,
\* whether it left the loop by a break, and whether that was the break of line 64.
SigmaPass(neighbors, target, rho, lo, hi, mid) ==
    LET psum == MembershipSum(neighbors, rho, mid, 1)
    IN  IF Converged(psum, target)
        THEN [lo |-> lo, hi |-> hi, mid |-> mid, broke |-> TRUE, reset |-> FALSE]
        ELSE LET above == Above(psum, target)
                 lo2   == IF above THEN lo ELSE mid
                 hi2   == IF above THEN mid ELSE hi
                 mid2  == IF above THEN FMid(lo2, hi2)
                          ELSE IF ~IsFinite(hi2) THEN FDouble(mid)
                          ELSE FMid(lo2, hi2)
             IN  IF IsZero(mid2) \/ ~IsFinite(mid2)
                 THEN [lo |-> lo2, hi |-> hi2, mid |-> FOne, broke |-> TRUE, reset |-> TRUE]
                 ELSE [lo |-> lo2, hi |-> hi2, mid |-> mid2, broke |-> FALSE,
                       reset |-> FALSE]

\* The for loop of calibrateSigma from the pass with index iter on, and the value returned.
RECURSIVE SigmaSearch(_, _, _, _, _, _, _)
SigmaSearch(neighbors, target, rho, iter, lo, hi, mid) ==
    IF ~HasIteration(iter) THEN mid
    ELSE LET pass == SigmaPass(neighbors, target, rho, lo, hi, mid)
         IN  IF pass.broke THEN pass.mid
             ELSE SigmaSearch(neighbors, target, rho, iter + 1, pass.lo, pass.hi, pass.mid)

\* The search of calibrateSigma, from lo = 0, hi = Infinity, mid = 1.
SigmaOf(neighbors, k, rho) ==
    SigmaSearch(neighbors, Log2(k), rho, 0, FZero, FInf, FOne)

\* The distances of a neighbor list, and a neighbor list with given distances
\* (the search reads nothing but the distances).
Distances(neighbors) == [j \in 1..Len(neighbors) |-> neighbors[j].distance]
WithDistances(ds) == [j \in 1..Len(ds) |-> [id |-> <<"z">>, distance |-> ds[j]]]

\* f itself; the comparison makes TLC enumerate f once instead of at every use.
Tabulated(f) == IF f = f THEN f ELSE f

\* SigmaOf for the distance lists and the k of the specifications below, computed once.
SigmaTable ==
    Tabulated([ds \in TabDistanceLists, k \in TabK |-> SigmaOf(WithDistances(ds), k, ds[1])])

calibrateSigma(neighbors, k, rho) ==
    IF /\ Distances(neighbors) \in TabDistanceLists
       /\ k \in TabK
       /\ rho = neighbors[1].distance
    THEN SigmaTable[Distances(neighbors), k]
    ELSE SigmaOf(neighbors, k, rho)

\* The weight computed from the distance itself, rho not subtracted.
NeighborWeightNoRho(neighbor, rho, sigma) ==
    IF neighbor.distance > 0 THEN ExpNeg(neighbor.distance, sigma) ELSE Unit

\* The weight of one neighbor: d > 0 ? Math.exp(-d / sigma) : 1.0
NeighborWeight(neighbor, rho, sigma) ==
    LET d == neighbor.distance - rho
    IN  IF d > 0 THEN ExpNeg(d, sigma) ELSE Unit

applyWeightSpaceScaling(neighbors, k) ==
    IF Len(neighbors) = 0 THEN <<>>
    ELSE LET rho   == neighbors[1].distance
             sigma == calibrateSigma(neighbors, k, rho)
         IN  [j \in 1..Len(neighbors) |->
                 [id       |-> neighbors[j].id,
                  distance |-> neighbors[j].distance,
                  weight   |-> NeighborWeight(neighbors[j], rho, sigma)]]

(***************************************************************************)
(* symmetrizeEdges                                                         *)
(***************************************************************************)

Modes == {"fuzzy-union", "product", "geometric", "other"}

\* First loop: edgeMap.set(`${source}:${target}`, strength), later entries overwrite.
RECURSIVE BuildEdgeMap(_, _, _)
BuildEdgeMap(directedEdges, i, edgeMap) ==
    IF i > Len(directedEdges) THEN edgeMap
    ELSE LET edge == directedEdges[i]
             key  == KeyOf(edge.source, edge.target)
         IN  BuildEdgeMap(directedEdges, i + 1,
                 [k \in (DOMAIN edgeMap) \cup {key} |->
                     IF k = key THEN edge.strength ELSE edgeMap[k]])

\* edgeMap.get(reverseKey) || 0
MapGetOrZero(edgeMap, key) ==
    IF key \in DOMAIN edgeMap THEN edgeMap[key] ELSE 0

\* The switch on mode; the result is in units of 1 / (Unit * Unit).
CombineStrength(mode, a, b) ==
    CASE mode = "product"   -> a * b
      [] mode = "geometric" -> Sqrt(a * b) * Unit
      [] OTHER              -> (a + b) * Unit - a * b

\* const pairKey = source < target ? `${source}:${target}` : `${target}:${source}`
PairKey(source, target) ==
    IF StrLess(source, target) THEN KeyOf(source, target) ELSE KeyOf(target, source)

\* Second loop: one output edge for each pairKey not yet in processedPairs.
RECURSIVE SymLoop(_, _, _, _, _, _)
SymLoop(directedEdges, mode, edgeMap, i, processedPairs, out) ==
    IF i > Len(directedEdges) THEN out
    ELSE LET edge    == directedEdges[i]
             pairKey == PairKey(edge.source, edge.target)
         IN  IF pairKey \in processedPairs
             THEN SymLoop(directedEdges, mode, edgeMap, i + 1, processedPairs, out)
             ELSE LET reverseKey == KeyOf(edge.target, edge.source)
                      b == MapGetOrZero(edgeMap, reverseKey)
                  IN  SymLoop(directedEdges, mode, edgeMap, i + 1,
                          processedPairs \cup {pairKey},
                          Append(out, [source   |-> edge.source,
                                       target   |-> edge.target,
                                       strength |-> CombineStrength(mode, edge.strength, b)]))

symmetrizeEdges(directedEdges, mode) ==
    SymLoop(directedEdges, mode, BuildEdgeMap(directedEdges, 1, <<>>), 1, {}, <<>>)

(***************************************************************************)
(* neighborhoodsToEdges, calculateK and buildGraph                         *)
(***************************************************************************)

\* new Set(knn.keys())
KeysOf(graph) == { graph[i].id : i \in DOMAIN graph }

\* Neighbors that are not keys kept: the second test of the inner loop dropped.
KeepNeighborNoKeyTest(pointId, neighborId, nodeIds) ==
    neighborId # pointId

\* Self-edges kept: the first test of the inner loop dropped.
KeepNeighborNoSelfTest(pointId, neighborId, nodeIds) ==
    neighborId \in nodeIds

\* The two `continue` tests of the inner loop: not a self-edge, and a key of the graph.
KeepNeighbor(pointId, neighborId, nodeIds) ==
    neighborId # pointId /\ neighborId \in nodeIds

\* The floor of the strength dropped.
EdgeStrengthNoFloor(weight) == weight

\* Math.max(0.001, neighbor.weight)
EdgeStrength(weight) == IF weight > 1 THEN weight ELSE 1

\* The inner loop over the scaled neighbors of one point.
RECURSIVE PointEdges(_, _, _, _)
PointEdges(pointId, scaledNeighbors, nodeIds, j) ==
    IF j > Len(scaledNeighbors) THEN <<>>
    ELSE LET neighbor == scaledNeighbors[j]
             rest     == PointEdges(pointId, scaledNeighbors, nodeIds, j + 1)
         IN  IF KeepNeighbor(pointId, neighbor.id, nodeIds)
             THEN <<[source   |-> pointId,
                     target   |-> neighbor.id,
                     strength |-> EdgeStrength(neighbor.weight)]>> \o rest
             ELSE rest

\* The outer loop over the entries of the Map, in insertion order.
RECURSIVE GraphEdges(_, _, _, _)
GraphEdges(graph, k, nodeIds, i) ==
    IF i > Len(graph) THEN <<>>
    ELSE PointEdges(graph[i].id, applyWeightSpaceScaling(graph[i].neighbors, k), nodeIds, 1)
             \o GraphEdges(graph, k, nodeIds, i + 1)

neighborhoodsToEdges(graph, k) ==
    IF Len(graph) = 0 THEN <<>>
    ELSE GraphEdges(graph, k, KeysOf(graph), 1)

\* Math.round(2 + 23.8 / (1 + Math.exp(-0.0015 * (datasetSize - 1100)))),
\* evaluated for datasetSize <= 200: 6 up to 129, 7 from 130 on.
calculateK(datasetSize) == IF datasetSize < 130 THEN 6 ELSE 7

\* options.k is a number, a function of the dataset size, or absent.
ResolveK(kOption, size) ==
    CASE kOption.type = "function" -> kOption.value + size
      [] kOption.type = "number"   -> kOption.value
      [] OTHER                     -> calculateK(size)

\* options.symmetryMode ?? 'fuzzy-union'
ResolveMode(modeOption) == IF modeOption = "undefined" THEN "fuzzy-union" ELSE modeOption

\* The k function called before the test for an empty graph.
KFunctionCallsBeforeEmptyTest(graph, kOption) ==
    IF kOption.type = "function" THEN 1 ELSE 0

\* The calls buildGraph makes of options.k: none when it returns early, one when
\* options.k is a function.
KFunctionCalls(graph, kOption) ==
    IF Len(graph) = 0 THEN 0
    ELSE IF kOption.type = "function" THEN 1 ELSE 0

buildGraph(graph, kOption, modeOption) ==
    IF Len(graph) = 0 THEN <<>>
    ELSE symmetrizeEdges(neighborhoodsToEdges(graph, ResolveK(kOption, Len(graph))),
                         ResolveMode(modeOption))

(***************************************************************************)
(* Layout numbers.  Positions are integers in steps of 1 / Grid = 0.0005,  *)
(* the amplitude of the jitter (Math.random() - 0.5) * 1e-3; alpha, a, b   *)
(* and ratios are in steps of 0.001 (Unit); edge weights and gradient      *)
(* coefficients are in steps of 0.0001 (CoefUnit), the floor of the        *)
(* prepared weight.                                                        *)
(***************************************************************************)

Grid == 2 * Unit
CoefUnit == 10 * Unit

Max(x, y) == IF x >= y THEN x ELSE y
Min(x, y) == IF x <= y THEN x ELSE y

\* Math.min(Math.max(value, min), max)
clamp(value, min, max) == Min(Max(value, min), max)

\* x * y / z for x, y, z >= 0, dividing first when the product would leave the integers.
MulDiv(x, y, z) ==
    IF x <= 100 * CoefUnit THEN (x * y) \div z ELSE (x \div z) * y

\* Math.sqrt of a squared distance in steps of 1 / Grid^2, rounded down to 1 / Grid.
GridSqrt(n) == SqrtSearch(n, 0, 46340)

\* Math.exp(-x) for x >= 0 in units of 0.001: linear interpolation of ExpTable.
ExpNegMilli(x) ==
    LET q == (8 * x) \div Unit
        r == (8 * x) % Unit
    IN  IF q >= 61 THEN 0
        ELSE ExpTable[q + 1] - ((ExpTable[q + 1] - ExpTable[q + 2]) * r) \div Unit

\* Math.pow(x, 1.4) for 0 <= x <= 1 at the multiples of 1/16, in units of 0.001.
Pow14Table ==
    << 0, 21, 54, 96, 144, 196, 253, 314, 379, 447, 518, 592, 668, 748, 829, 914, 1000 >>

\* Math.pow(x, FRONTLOAD_DECAY_EXP) for 0 <= x <= 1: linear interpolation of Pow14Table.
Pow14(x) ==
    LET q == (16 * x) \div Unit
        r == (16 * x) % Unit
    IN  IF q >= 16 THEN Unit
        ELSE Pow14Table[q + 1] + ((Pow14Table[q + 2] - Pow14Table[q + 1]) * r) \div Unit

\* Math.pow(x, 1.5) for 0 <= x <= 1, as x * sqrt(x).
Pow15(x) == (x * Sqrt(x * Unit)) \div Unit

\* Math.pow(x, p) for the exponents b and b - 1 of the fitted curve (p = 1 and p = 0).
Pow(x, p) == CASE p = 0 -> Unit [] p = Unit -> x

(***************************************************************************)
(* The doubles of the learning-rate schedule.  A value is m * 2^e with a   *)
(* signed mantissa of MantBits bits, and every operation rounds its exact  *)
(* result to the nearest such value, ties to the even mantissa, as the     *)
(* arithmetic of a double does with 53 bits.  A decimal literal is the     *)
(* value nearest to it.                                                    *)
(***************************************************************************)

\* The number of bits m >= 0 has beyond MantBits.
RECURSIVE ExtraBits(_)
ExtraBits(m) == IF m < 2^MantBits THEN 0 ELSE 1 + ExtraBits(m \div 2)

\* m * 2^e rounded to a mantissa of MantBits bits, to nearest, ties to even.
RECURSIVE RoundToNearest(_, _)
RoundToNearest(m, e) ==
    IF m = 0 THEN [m |-> 0, e |-> 0]
    ELSE IF m < 0 THEN LET r == RoundToNearest(-m, e) IN [m |-> -r.m, e |-> r.e]
    ELSE IF m < 2^(MantBits - 1) THEN RoundToNearest(2 * m, e - 1)
    ELSE LET s  == ExtraBits(m)
             q  == m \div 2^s
             r  == m % 2^s
             up == s > 0 /\ (2 * r > 2^s \/ (2 * r = 2^s /\ q % 2 = 1))
             n  == IF up THEN q + 1 ELSE q
         IN  IF n = 2^MantBits THEN [m |-> 2^(MantBits - 1), e |-> e + s + 1]
             ELSE [m |-> n, e |-> e + s]

FNeg(x) == [m |-> -x.m, e |-> x.e]

\* x + y
FAdd(x, y) ==
    IF x.m = 0 THEN y ELSE IF y.m = 0 THEN x
    ELSE IF x.e >= y.e THEN RoundToNearest(x.m * 2^(x.e - y.e) + y.m, y.e)
    ELSE RoundToNearest(x.m + y.m * 2^(y.e - x.e), x.e)

\* x - y
FSub(x, y) == FAdd(x, FNeg(y))

\* x * y
FMul(x, y) == RoundToNearest(x.m * y.m, x.e + y.e)

\* num * 2^e / den for den > 0: the quotient to MantBits + 2 bits, its last bit set
\* when the division leaves a remainder, then rounded.
RECURSIVE Quotient(_, _, _)
Quotient(num, den, e) ==
    IF num = 0 THEN [m |-> 0, e |-> 0]
    ELSE IF num < 0 THEN FNeg(Quotient(-num, den, e))
    ELSE IF num \div den < 2^(MantBits + 1) THEN Quotient(2 * num, den, e - 1)
    ELSE RoundToNearest(2 * (num \div den) + (IF num % den = 0 THEN 0 ELSE 1), e - 1)

\* x / y for y # 0
FDiv(x, y) ==
    IF y.m < 0 THEN Quotient(-x.m, -y.m, x.e - y.e) ELSE Quotient(x.m, y.m, x.e - y.e)

\* The double nearest to num / den, and to a number of thousandths.
FromRatio(num, den) == Quotient(num, den, 0)
FromMilli(v) == FromRatio(v, Unit)

\* x < y and x <= y
FLess(x, y) == FSub(x, y).m < 0
FLessEq(x, y) == FSub(x, y).m <= 0

\* Math.max(x, y)
FMax(x, y) == IF FLess(x, y) THEN y ELSE x

\* x >= 0 in units of 0.001, rounded to nearest.
ToMilli(x) ==
    IF x.e >= 0 THEN x.m * 2^x.e * Unit
    ELSE (2 * x.m * Unit + 2^(-x.e)) \div 2^(1 - x.e)

\* Math.pow(x, FRONTLOAD_DECAY_EXP) for 0 <= x <= 1, by Pow14: pow(0) = 0 and pow(1) = 1.
FPow14(x) == FromMilli(Pow14(ToMilli(x)))

\* options.field ?? default: an option that is not given is a field the record lacks.
Opt(opts, field, default) == IF field \in DOMAIN opts THEN opts[field] ELSE default

(***************************************************************************)
(* adaptive.ts                                                             *)
(***************************************************************************)

calculateAdaptiveAlpha(nodeCount) ==
    LET MIN_ALPHA == 250
        MAX_ALPHA == Unit
        MIDPOINT  == 30
        STEEPNESS == 80
        range     == MAX_ALPHA - MIN_ALPHA
        x         == STEEPNESS * (nodeCount - MIDPOINT)
        normalized == IF x >= 0
                      THEN (Unit * Unit) \div (Unit + ExpNegMilli(x))
                      ELSE (Unit * ExpNegMilli(-x)) \div (ExpNegMilli(-x) + Unit)
    IN  MIN_ALPHA + (range * normalized) \div Unit

calculateRepulsionEdgeSample(nodeCount) ==
    LET MAX_SAMPLE == Unit
        MIN_SAMPLE == 500
        SMALL_THRESHOLD == 1000
        LARGE_THRESHOLD == 9000
    IN  IF nodeCount <= SMALL_THRESHOLD THEN MAX_SAMPLE
        ELSE IF nodeCount >= LARGE_THRESHOLD THEN MIN_SAMPLE
        ELSE LET progress == ((nodeCount - SMALL_THRESHOLD) * Unit)
                                 \div (LARGE_THRESHOLD - SMALL_THRESHOLD)
                 decayed  == Unit - Pow15(progress)
             IN  MIN_SAMPLE + ((MAX_SAMPLE - MIN_SAMPLE) * decayed) \div Unit

calculateFullCoverageRatio(nodeCount) ==
    LET smoothRatio == (2500 * Unit) \div (nodeCount + 2500)
    IN  Min(Max(smoothRatio, 100), 300)

\* Math.round(Math.log10(x)) for x >= 1.
RoundLog10(x) ==
    IF x <= 3 THEN 0 ELSE IF x <= 31 THEN 1 ELSE IF x <= 316 THEN 2
    ELSE IF x <= 3162 THEN 3 ELSE IF x <= 31622 THEN 4 ELSE 5

\* minDist and spread are never given: options.minDist ?? 0.1 and options.spread ?? 2.0.
DefaultMinDist == Unit \div 10
DefaultSpread == 2 * Unit

calculateEpochSettings(nodeCount, spread, opts) ==
    LET safeCount    == Max(1, nodeCount)
        epochs       == Opt(opts, "epochs", 300)
        initialAlpha == Opt(opts, "initialAlpha", calculateAdaptiveAlpha(safeCount))
        autoNegativeSampleRate == Min(12, Max(2, RoundLog10(safeCount + 10)))
        autoFinalAlpha == Min(initialAlpha, Max(200, initialAlpha \div 10))
    IN  [ totalEpochs        |-> epochs,
          initialAlpha       |-> initialAlpha,
          finalAlpha         |-> Opt(opts, "finalAlpha", autoFinalAlpha),
          negativeSampleRate |-> Opt(opts, "negativeSampleRate", autoNegativeSampleRate),
          repulsionStrength  |-> Opt(opts, "repulsionStrength", Max(200, spread)) ]

\* 0.2, in units of 0.001.
FRONTLOAD_RATIO == 200

\* 1e-6 = 2^-6 / 5^6
Millionth == Quotient(1, 15625, -6)

\* The body of computeFrontLoadedAlpha: the three arguments and the result are doubles.
FrontLoadedAlphaOf(progressRatio, initialAlpha, finalAlpha) ==
    IF FLessEq(progressRatio, FromMilli(FRONTLOAD_RATIO)) THEN initialAlpha
    ELSE LET decayProgress ==
                 FDiv(FSub(progressRatio, FromMilli(FRONTLOAD_RATIO)),
                      FMax(Millionth, FSub(FromRatio(1, 1), FromMilli(FRONTLOAD_RATIO))))
             easedDecay == FPow14(decayProgress)
         IN  FAdd(initialAlpha, FMul(FSub(finalAlpha, initialAlpha), easedDecay))

\* The progress ratios and the pairs of initialAlpha and finalAlpha of the
\* specifications below: the pairs given as options and the automatic ones.
TabProgress == { p \in [ num : 0..MaxEpochs, den : 1..MaxEpochs ] : p.num <= p.den }
TabAlphaPairs ==
    (ScheduleAlphas \X ScheduleAlphas)
        \cup { << calculateEpochSettings(n, DefaultSpread, [epochs |-> 1]).initialAlpha,
                  calculateEpochSettings(n, DefaultSpread, [epochs |-> 1]).finalAlpha >> :
                    n \in ScheduleNodeCounts \cup 1..(MaxPoints + 2) }

\* FrontLoadedAlphaOf for these, computed once.
AlphaTable ==
    Tabulated([p \in TabProgress, ab \in TabAlphaPairs |->
                  FrontLoadedAlphaOf(FromRatio(p.num, p.den), FromMilli(ab[1]),
                                     FromMilli(ab[2]))])

\* progressRatio is the fraction num / den, initialAlpha and finalAlpha are in units of
\* 0.001 and stand for the doubles nearest to them; the result is a double.
computeFrontLoadedAlpha(progressRatio, initialAlpha, finalAlpha) ==
    IF progressRatio \in TabProgress /\ <<initialAlpha, finalAlpha>> \in TabAlphaPairs
    THEN AlphaTable[progressRatio, <<initialAlpha, finalAlpha>>]
    ELSE FrontLoadedAlphaOf(FromRatio(progressRatio.num, progressRatio.den),
                            FromMilli(initialAlpha), FromMilli(finalAlpha))

clampRepulsionEdgeSample(value) == clamp(value, 50, Unit)

\* findABParams(spread, minDist) at the default spread and minDist: the grid search
\* returns a = 0.5, b = 1.0.
findABParams(spread, minDist) ==
    CASE spread = DefaultSpread /\ minDist = DefaultMinDist -> [a |-> Unit \div 2, b |-> Unit]

(***************************************************************************)
(* forces.ts                                                               *)
(***************************************************************************)

MAX_ATTRACTIVE_STEP == 4 * CoefUnit
MAX_REPULSIVE_STEP == 4 * CoefUnit
\* MIN_DIST_SQUARED = 1e-7 is 0.4 / Grid^2: only the squared distance 0 is below it.
MIN_DIST_SQUARED == 1
DEFAULT_MIN_ATTRACTIVE_BASE == 3
DEFAULT_MIN_ATTRACTIVE_SCALE == 50
DEFAULT_MIN_ATTRACTIVE_PUSH == 450

\* A squared distance in steps of 1 / Grid^2, converted to units of 0.001.
SquaredMilli(distSquared) == distSquared \div ((Grid * Grid) \div Unit)

\* The outcomes of the two draws (Math.random() - 0.5) * 1e-3, each in [-0.0005, 0.0005):
\* one step down, or none.
Noise == { <<-1, 0>>, <<0, -1>>, <<0, 0>> }

\* kernelGradient, with distSquared, a and b in units of 0.001; the result in CoefUnit.
kernelGradient(distSquared, a, b) ==
    LET distPow   == Pow(distSquared, b)
        numerator == (((2 * a * b) \div Unit) * Pow(distSquared, b - Unit)) \div Unit
    IN  (numerator * CoefUnit) \div (Unit + (a * distPow) \div Unit)

\* nodes[index] of the zero-based array.
At(nodes, index) == nodes[index + 1]

\* The source displaced, the target left where it is.
DisplaceSourceOnly(nodes, sourceIndex, targetIndex, dx, dy) ==
    [nodes EXCEPT ![sourceIndex + 1].x = @ + dx, ![sourceIndex + 1].y = @ + dy]

\* source.x += dx; source.y += dy; target.x -= dx; target.y -= dy, in this order.
Displace(nodes, sourceIndex, targetIndex, dx, dy) ==
    LET moved == [nodes EXCEPT ![sourceIndex + 1].x = @ + dx, ![sourceIndex + 1].y = @ + dy]
    IN  [moved EXCEPT ![targetIndex + 1].x = @ - dx, ![targetIndex + 1].y = @ - dy]

\* distSquared < MIN_DIST_SQUARED for the exact difference of the two positions.
Coincide(nodes, sourceIndex, targetIndex) ==
    LET exactX == At(nodes, sourceIndex).x - At(nodes, targetIndex).x
        exactY == At(nodes, sourceIndex).y - At(nodes, targetIndex).y
    IN  exactX * exactX + exactY * exactY < MIN_DIST_SQUARED

\* Math.random() is called only in the branch of coinciding positions.
NoiseFor(nodes, sourceIndex, targetIndex) ==
    IF Coincide(nodes, sourceIndex, targetIndex) THEN Noise ELSE { <<0, 0>> }

\* Lines 51-102 of applyAttractiveUpdate: the push of lines 90-93 and the gradient
\* step of lines 99-102, each the vector added to the source and subtracted from the
\* target, in steps of 1 / Grid.
AttractiveMoves(nodes, edge, alpha, ab, minDist, noise) ==
    LET source == At(nodes, edge.sourceIndex)
        target == At(nodes, edge.targetIndex)
        exactX == source.x - target.x
        exactY == source.y - target.y
        jitter == Coincide(nodes, edge.sourceIndex, edge.targetIndex)
        diffX  == IF jitter THEN noise[1] ELSE exactX
        diffY  == IF jitter THEN noise[2] ELSE exactY
        distSquared == diffX * diffX + diffY * diffY
        \* gradCoeff *= edge.weight, dividing first when the product would leave the integers
        byWeight == IF edge.weight <= 100 * CoefUnit
                    THEN ((-kernelGradient(SquaredMilli(distSquared), ab.a, ab.b))
                             * edge.weight) \div CoefUnit
                    ELSE (-kernelGradient(SquaredMilli(distSquared), ab.a, ab.b))
                             * (edge.weight \div CoefUnit)
        gradient == (byWeight * alpha) \div Unit
        minAttractiveDistance ==
            DEFAULT_MIN_ATTRACTIVE_BASE * Grid
                + (minDist * DEFAULT_MIN_ATTRACTIVE_SCALE * Grid) \div Unit
        minAttractiveDistanceSq == minAttractiveDistance * minAttractiveDistance
        dist   == GridSqrt(distSquared)
        pushes == distSquared < minAttractiveDistanceSq /\ dist > 0
        overlapRatio == ((minAttractiveDistance - dist) * Unit) \div minAttractiveDistance
        spacingAttenuation == IF pushes THEN Max(0, Unit - overlapRatio) ELSE Unit
        pushDistance == (((overlapRatio * DEFAULT_MIN_ATTRACTIVE_PUSH) \div Unit) * alpha) \div Unit
        push   == (pushDistance * Grid) \div Unit
        pushX  == IF pushes THEN (push * ((diffX * Unit) \div dist)) \div Unit ELSE 0
        pushY  == IF pushes THEN (push * ((diffY * Unit) \div dist)) \div Unit ELSE 0
        gradCoeff == clamp((gradient * spacingAttenuation) \div Unit,
                           -MAX_ATTRACTIVE_STEP, MAX_ATTRACTIVE_STEP)
    IN  [ push |-> <<pushX, pushY>>,
          step |-> <<(gradCoeff * diffX) \div CoefUnit, (gradCoeff * diffY) \div CoefUnit>> ]

applyAttractiveUpdate(nodes, edge, alpha, ab, minDist, noise) ==
    LET moves == AttractiveMoves(nodes, edge, alpha, ab, minDist, noise)
    IN  Displace(Displace(nodes, edge.sourceIndex, edge.targetIndex,
                          moves.push[1], moves.push[2]),
                 edge.sourceIndex, edge.targetIndex, moves.step[1], moves.step[2])

applyRepulsiveUpdate(nodes, sourceIndex, targetIndex, alpha, ab, repulsionStrength, noise) ==
    IF sourceIndex = targetIndex THEN nodes
    ELSE
    LET source == At(nodes, sourceIndex)
        target == At(nodes, targetIndex)
        exactX == source.x - target.x
        exactY == source.y - target.y
        jitter == Coincide(nodes, sourceIndex, targetIndex)
        diffX  == IF jitter THEN noise[1] ELSE exactX
        diffY  == IF jitter THEN noise[2] ELSE exactY
        distSquared == SquaredMilli(diffX * diffX + diffY * diffY)
        distPow == Pow(distSquared, ab.b)
        numerator == (((2 * repulsionStrength * ab.b) \div Unit) * CoefUnit) \div Unit
        byDistance == (numerator * Unit) \div (1 + distSquared)
        byKernel == MulDiv(byDistance, Unit, Unit + (ab.a * distPow) \div Unit)
        gradCoeff == clamp(MulDiv(byKernel, alpha, Unit),
                           -MAX_REPULSIVE_STEP, MAX_REPULSIVE_STEP)
    IN  Displace(nodes, sourceIndex, targetIndex,
                 (gradCoeff * diffX) \div CoefUnit, (gradCoeff * diffY) \div CoefUnit)

(***************************************************************************)
(* sgd-layout.ts                                                           *)
(***************************************************************************)

DEFAULT_FRAME_MS == 32
DEFAULT_RENDER_SAMPLE_RATE == 2
YIELD_EVERY_EPOCHS == 5

\* nodeIndexMap.get(id): the last index that holds the id, or -1 for undefined.
NodeIndex(nodeList, id) ==
    IF \E i \in DOMAIN nodeList : nodeList[i].id = id
    THEN (CHOOSE i \in DOMAIN nodeList :
              /\ nodeList[i].id = id
              /\ \A j \in DOMAIN nodeList : j > i => nodeList[j].id # id) - 1
    ELSE -1

\* Self-loops kept: the second `continue` test of prepareEdgeList dropped.
SurvivesWithSelfLoops(sourceIndex, targetIndex) ==
    sourceIndex # -1 /\ targetIndex # -1

\* The two `continue` tests of prepareEdgeList.
Survives(sourceIndex, targetIndex) ==
    sourceIndex # -1 /\ targetIndex # -1 /\ sourceIndex # targetIndex

\* Math.max(0.0001, edge.strength || 0.0001)
PreparedWeight(strength) == Max(1, IF strength = 0 THEN 1 ELSE strength)

RECURSIVE PrepareFrom(_, _, _)
PrepareFrom(nodeList, edgeList, i) ==
    IF i > Len(edgeList) THEN <<>>
    ELSE LET sourceIndex == NodeIndex(nodeList, edgeList[i].source)
             targetIndex == NodeIndex(nodeList, edgeList[i].target)
             rest        == PrepareFrom(nodeList, edgeList, i + 1)
         IN  IF Survives(sourceIndex, targetIndex)
             THEN <<[sourceIndex |-> sourceIndex,
                     targetIndex |-> targetIndex,
                     weight      |-> PreparedWeight(edgeList[i].strength)]>> \o rest
             ELSE rest

prepareEdgeList(nodeList, edgeList) == PrepareFrom(nodeList, edgeList, 1)

toSgdNodes(nodeList) ==
    [i \in DOMAIN nodeList |-> [id |-> nodeList[i].id, x |-> nodeList[i].x, y |-> nodeList[i].y]]

toLayoutNodes(nodeList) ==
    [i \in DOMAIN nodeList |-> [id |-> nodeList[i].id, x |-> nodeList[i].x, y |-> nodeList[i].y]]

\* Lines 108-126: the constants runLayout derives from its arguments before the loop.
\* An option that is not given is a field the options record lacks.
Locals(nodeCount, opts) ==
    LET minDist == Opt(opts, "minDist", DefaultMinDist)
        spread  == Opt(opts, "spread", DefaultSpread)
    IN  [ minDist            |-> minDist,
          spread             |-> spread,
          progressInterval   |-> Opt(opts, "progressInterval", DEFAULT_FRAME_MS),
          skipInitialUpdates |-> Opt(opts, "skipInitialUpdates", 10),
          renderSampleRate   |-> Opt(opts, "renderSampleRate", DEFAULT_RENDER_SAMPLE_RATE),
          epochSettings      |-> calculateEpochSettings(nodeCount, spread, opts),
          ab                 |-> findABParams(spread, minDist),
          repulsionEdgeSample |->
              clampRepulsionEdgeSample(calculateRepulsionEdgeSample(nodeCount)),
          fullCoverageRatio  |-> calculateFullCoverageRatio(nodeCount) ]

totalEpochs        == locals.epochSettings.totalEpochs
negativeSampleRate == locals.epochSettings.negativeSampleRate
\* options.onProgress is a function or is not given.
HasOnProgress      == "onProgress" \in DOMAIN options

\* epoch === totalEpochs (never true inside the loop).
IsFinalEpochOffByOne(epochIndex, total) == epochIndex = total

\* epoch === totalEpochs - 1
IsFinalEpoch(epochIndex, total) == epochIndex = total - 1

\* totalEpochs <= 1 ? 1 : epoch / (totalEpochs - 1), kept as the fraction num / den.
ProgressRatio(epochIndex, total) ==
    IF total <= 1 THEN [num |-> 1, den |-> 1] ELSE [num |-> epochIndex, den |-> total - 1]

\* The alpha without its schedule: initialAlpha in every epoch.
unscheduledAlpha == FromMilli(locals.epochSettings.initialAlpha)

\* The values of one epoch.
isFinalEpoch  == IsFinalEpoch(epoch, totalEpochs)
progressRatio == ProgressRatio(epoch, totalEpochs)
\* The double of line 141.
currentAlpha  ==
    computeFrontLoadedAlpha(progressRatio, locals.epochSettings.initialAlpha,
                            locals.epochSettings.finalAlpha)
\* The forces take alpha in units of 0.001.
alphaMilli == ToMilli(currentAlpha)
currentSampleRatio ==
    IF progressRatio.num * Unit < locals.fullCoverageRatio * progressRatio.den
    THEN Unit ELSE locals.repulsionEdgeSample
\* Math.round(1 / ratio) is the floor of (2 + ratio) / (2 * ratio).
stride == IF currentSampleRatio >= 999 THEN 1
          ELSE Max(1, (2 * Unit + currentSampleRatio) \div (2 * currentSampleRatio))
\* The offset of the epoch after this one.
offsetOfNextEpoch == IF stride = 1 THEN 0 ELSE (epoch + 1) % stride

offset == IF stride = 1 THEN 0 ELSE epoch % stride
\* Math.round(progressRatio * 100)
progressPercent == (200 * progressRatio.num + progressRatio.den) \div (2 * progressRatio.den)

\* now - lastMessageTime >= progressInterval
ThrottleElapsedOrEqual(now, last, interval) == now - last >= interval

\* now - lastMessageTime > progressInterval
ThrottleElapsed(now, last, interval) == now - last > interval

\* The sample index taken without the - 1.
ShouldRenderFromOne(count, skip, rate, final) ==
    /\ count > skip \/ final
    /\ \/ final
       \/ rate <= 1
       \/ Max(0, count - skip) % rate = 0

\* updateCount > skipInitialUpdates || isFinalEpoch, and then shouldRender.
ShouldRender(count, skip, rate, final) ==
    /\ count > skip \/ final
    /\ \/ final
       \/ rate <= 1
       \/ Max(0, count - skip - 1) % rate = 0

\* The values a progress callback returns: false, undefined, null, 0, '' and true.
Results == {"false", "undefined", "null", "0", "''", "true"}

\* true cancels instead of false.
CancelsOnTrue(value) == value = "true"

\* No result cancels.
NeverCancels(value) == FALSE

\* !result
IsFalsy(value) == value \in {"false", "undefined", "null", "0", "''"}

\* result === false
IsCancellation(value) == value = "false"

(***************************************************************************)
(* Specification SpecSym: symmetrizeEdges called on a bounded edge list    *)
(***************************************************************************)

\* Longest directed edge list passed to symmetrizeEdges.
MaxDirected == 2

SymIds == { <<"a">>, <<"c">>, <<"a", ":", "b">>, <<"b", ":", "c">> }

\* 0.001, 0.6 and 0.8
SymStrengths == {1, 600, 800}

DirectedEdge == [source : SymIds, target : SymIds, strength : SymStrengths]

SymOff ==
    /\ symIn = <<>>
    /\ symMode = "fuzzy-union"
    /\ symOut = <<>>
    /\ symPc = "off"

GraphOff ==
    /\ knn = <<>>
    /\ gK = [type |-> "undefined", value |-> 0]
    /\ gMode = "undefined"
    /\ gDirected = <<>>
    /\ gEdges = <<>>
    /\ gPc = "off"
    /\ kCalls = 0

ScaleOff ==
    /\ wIn = <<>>
    /\ wK = 0
    /\ wOut = <<>>
    /\ wSigma = FZero
    /\ wPc = "off"

UmapOff ==
    /\ initialPositions = [given |-> FALSE, nodes |-> <<>>]
    /\ uPc = "off"

SearchOff == search = [pc |-> "off"]

ForcesOff == forceCall = [pc |-> "off"]

SharedOff ==
    /\ heap = [objects |-> <<>>, arrays |-> <<>>]
    /\ given = <<>>
    /\ runs = <<>>
    /\ handed = <<>>
    /\ turn = 0

ScheduleOff ==
    /\ sgdNodeCount = 0
    /\ preparedEdgeCount = 0
    /\ epochLog = <<>>
    /\ sampled = {}

LayoutOff ==
    /\ inNodes = <<>>
    /\ inEdges = <<>>
    /\ options = [epochs |-> 0]
    /\ sgdNodes = <<>>
    /\ preparedEdges = <<>>
    /\ locals = <<>>
    /\ epoch = 0
    /\ edgeIndex = 0
    /\ sampleCount = 0
    /\ cancelled = FALSE
    /\ lastMessageTime = 0
    /\ updateCount = 0
    /\ result = "none"
    /\ clock = 0
    /\ pc = "off"
    /\ resolved = <<>>
    /\ calls = <<>>
    /\ checkpoints = <<>>
    /\ updates = <<>>
    /\ suspensions = <<>>

InitSym ==
    /\ symIn \in BoundedSeq(DirectedEdge, MaxDirected)
    /\ symMode \in Modes
    /\ symOut = <<>>
    /\ symPc = "ready"
    /\ GraphOff
    /\ ScaleOff
    /\ UmapOff
    /\ LayoutOff
    /\ ScheduleOff
    /\ SearchOff
    /\ ForcesOff
    /\ SharedOff

CallSymmetrizeEdges ==
    /\ symPc = "ready"
    /\ symOut' = symmetrizeEdges(symIn, symMode)
    /\ symPc' = "done"
    /\ UNCHANGED <<schedVars, searchVars, forceVars, sharedVars>>
    /\ UNCHANGED <<symIn, symMode, graphVars, scaleVars, umapVars, layoutVars>>

NextSym == CallSymmetrizeEdges

SpecSym == InitSym /\ [][NextSym]_vars

(***************************************************************************)
(* Specification SpecGraph: neighborhoodsToEdges and buildGraph called on  *)
(* a bounded k-NN graph                                                    *)
(***************************************************************************)

\* The k-NN graph has at most MaxPoints entries (points).

PointIds == { <<"a">>, <<"b">>, <<"a", ":", "a">> }
\* "z" is never a key of the graph.
NeighborIds == PointIds \cup { <<"z">> }

Neighbor == [id : NeighborIds, distance : 0..MaxDistance]

\* Neighbor lists are pre-sorted by ascending distance.
SortedByDistance(ns) ==
    \A j \in 1..(Len(ns) - 1) : ns[j].distance <= ns[j + 1].distance

NeighborLists == { ns \in BoundedSeq(Neighbor, MaxNeighbors) : SortedByDistance(ns) }

\* A Map has one entry for each key.
KnnGraphs ==
    { g \in BoundedSeq([id : PointIds, neighbors : NeighborLists], MaxPoints) :
        \A i, j \in DOMAIN g : g[i].id = g[j].id => i = j }

\* options.k: a number, the function size => size + 1, or absent.
KOptions ==
    [type : {"number"}, value : KValues]
        \cup { [type |-> "function", value |-> 1], [type |-> "undefined", value |-> 0] }

ModeOptions == Modes \cup {"undefined"}

InitGraph ==
    /\ knn \in KnnGraphs
    /\ gK = [type |-> "undefined", value |-> 0]
    /\ gMode = "undefined"
    /\ gDirected = <<>>
    /\ gEdges = <<>>
    /\ gPc = "ready"
    /\ kCalls = 0
    /\ SymOff
    /\ ScaleOff
    /\ UmapOff
    /\ LayoutOff
    /\ ScheduleOff
    /\ SearchOff
    /\ ForcesOff
    /\ SharedOff

CallNeighborhoodsToEdges ==
    /\ gPc = "ready"
    /\ \E k \in KValues :
        /\ gK' = [type |-> "number", value |-> k]
        /\ gDirected' = neighborhoodsToEdges(knn, k)
    /\ gPc' = "edgesDone"
    /\ UNCHANGED <<schedVars, searchVars, forceVars, sharedVars>>
    /\ UNCHANGED <<knn, gMode, gEdges, kCalls, symVars, scaleVars, umapVars, layoutVars>>

\* buildGraph; gDirected records the directed edges it passed to symmetrizeEdges.
CallBuildGraph ==
    /\ gPc = "ready"
    /\ \E kOption \in KOptions, modeOption \in ModeOptions :
        /\ gK' = kOption
        /\ gMode' = modeOption
        /\ gDirected' = neighborhoodsToEdges(knn, ResolveK(kOption, Len(knn)))
        /\ gEdges' = buildGraph(knn, kOption, modeOption)
        /\ kCalls' = KFunctionCalls(knn, kOption)
    /\ gPc' = "graphDone"
    /\ UNCHANGED <<schedVars, searchVars, forceVars, sharedVars>>
    /\ UNCHANGED <<knn, symVars, scaleVars, umapVars, layoutVars>>

NextGraph == CallNeighborhoodsToEdges \/ CallBuildGraph

SpecGraph == InitGraph /\ [][NextGraph]_vars

(***************************************************************************)
(* Specification SpecScale: applyWeightSpaceScaling called on a bounded    *)
(* neighbor list, and buildGraph called on a graph without neighbors       *)
(***************************************************************************)

\* Neighbor lists pre-sorted by ascending distance, ties included.
ScaledLists ==
    { ns \in BoundedSeq([id : {<<"a">>, <<"b">>}, distance : 0..MaxScaledDistance],
                        MaxScaled) : SortedByDistance(ns) }

\* The empty Map, and a Map with one key that has no neighbors.
ScaleGraphs == { <<>>, << [id |-> <<"a">>, neighbors |-> <<>>] >> }

InitScale ==
    /\ wIn \in ScaledLists
    /\ wK \in TabK
    /\ wOut = <<>>
    /\ wSigma = FZero
    /\ wPc = "ready"
    /\ knn \in ScaleGraphs
    /\ gK = [type |-> "undefined", value |-> 0]
    /\ gMode = "undefined"
    /\ gDirected = <<>>
    /\ gEdges = <<>>
    /\ gPc = "ready"
    /\ kCalls = 0
    /\ SymOff
    /\ UmapOff
    /\ LayoutOff
    /\ ScheduleOff
    /\ SearchOff
    /\ ForcesOff
    /\ SharedOff

\* applyWeightSpaceScaling; wSigma records the sigma of line 96 when that line is reached.
CallApplyWeightSpaceScaling ==
    /\ wPc = "ready"
    /\ wOut' = applyWeightSpaceScaling(wIn, wK)
    /\ wSigma' = IF Len(wIn) = 0 THEN wSigma
                 ELSE calibrateSigma(wIn, wK, wIn[1].distance)
    /\ wPc' = "done"
    /\ UNCHANGED <<schedVars, searchVars, forceVars, sharedVars>>
    /\ UNCHANGED <<wIn, wK, symVars, graphVars, umapVars, layoutVars>>

NextScale == CallApplyWeightSpaceScaling \/ CallBuildGraph

SpecScale == InitScale /\ [][NextScale]_vars

(***************************************************************************)
(* Specification SpecSearch: calibrateSigma called on a non-empty neighbor *)
(* list, one pass of its loop at a time                                    *)
(***************************************************************************)

\* Lines 26-31: the call with rho = neighbors[0].distance (line 95), before the loop.
InitSearch ==
    /\ wIn \in { ns \in ScaledLists : Len(ns) > 0 }
    /\ wK \in TabK
    /\ wOut = <<>>
    /\ wSigma = FZero
    /\ wPc = "search"
    /\ search = [pc |-> "loop", iter |-> 0, lo |-> FZero, hi |-> FInf, mid |-> FOne,
                 passes |-> 0, reset |-> FALSE]
    /\ SymOff
    /\ GraphOff
    /\ UmapOff
    /\ LayoutOff
    /\ ScheduleOff
    /\ ForcesOff
    /\ SharedOff

\* Lines 33-66: the loop test and one pass of the loop.
SearchPass ==
    /\ search.pc = "loop"
    /\ IF HasIteration(search.iter)
       THEN LET pass == SigmaPass(wIn, Log2(wK), wIn[1].distance,
                                  search.lo, search.hi, search.mid)
            IN  search' = [pc     |-> IF pass.broke THEN "return" ELSE "loop",
                           iter   |-> IF pass.broke THEN search.iter ELSE search.iter + 1,
                           lo     |-> pass.lo,
                           hi     |-> pass.hi,
                           mid    |-> pass.mid,
                           passes |-> search.passes + 1,
                           reset  |-> pass.reset]
       ELSE search' = [search EXCEPT !.pc = "return"]
    /\ UNCHANGED <<wIn, wK, wOut, wSigma, wPc>>
    /\ UNCHANGED <<symVars, graphVars, umapVars, layoutVars, schedVars, forceVars, sharedVars>>

\* Line 68: return mid.
SearchReturn ==
    /\ search.pc = "return"
    /\ wSigma' = search.mid
    /\ search' = [search EXCEPT !.pc = "done"]
    /\ UNCHANGED <<wIn, wK, wOut, wPc>>
    /\ UNCHANGED <<symVars, graphVars, umapVars, layoutVars, schedVars, forceVars, sharedVars>>

NextSearch == SearchPass \/ SearchReturn

SpecSearch == InitSearch /\ [][NextSearch]_vars

(***************************************************************************)
(* Specification SpecForces: applyAttractiveUpdate and                     *)
(* applyRepulsiveUpdate called directly on an array of three nodes         *)
(***************************************************************************)

\* The arrays: the first two nodes on each other or near each other, or ten units
\* apart, the third aside; the weight of an edge between the first two nodes, 1.0 for
\* the near ones and 1000.0 for the far ones (any other edge has the weight 1.0).
ForceInputs ==
    { [ nodes  |-> << [id |-> <<"a">>, x |-> 0, y |-> 0],
                      [id |-> <<"b">>, x |-> x1, y |-> y1],
                      [id |-> <<"c">>, x |-> -2 * Grid, y |-> 3 * Grid] >>,
        weight |-> CoefUnit ] : x1 \in {0, 1, Grid}, y1 \in {0, Grid} }
    \cup { [ nodes  |-> << [id |-> <<"a">>, x |-> -5 * Grid, y |-> 0],
                           [id |-> <<"b">>, x |-> 5 * Grid, y |-> 0],
                           [id |-> <<"c">>, x |-> -2 * Grid, y |-> 3 * Grid] >>,
             weight |-> 1000 * CoefUnit ] }

\* The alpha of a call.
ForceAlphas == { 200, Unit }

\* Every coordinate is within 7.5 units of the origin: the squared distance of two
\* such nodes, in steps of 1 / Grid^2, is an integer of 32 bits.
InWindow(nodes) ==
    \A i \in DOMAIN nodes : /\ nodes[i].x \in (-15000)..15000
                            /\ nodes[i].y \in (-15000)..15000

InitForces ==
    /\ \E input \in ForceInputs :
          /\ sgdNodes = input.nodes
          /\ forceCall = [pc |-> "ready", weight |-> input.weight, log |-> <<>>]
    /\ SharedOff
    /\ inNodes = <<>>
    /\ inEdges = <<>>
    /\ options = [epochs |-> 0]
    /\ preparedEdges = <<>>
    /\ locals = <<>>
    /\ epoch = 0
    /\ edgeIndex = 0
    /\ sampleCount = 0
    /\ cancelled = FALSE
    /\ lastMessageTime = 0
    /\ updateCount = 0
    /\ result = "none"
    /\ clock = 0
    /\ pc = "off"
    /\ resolved = <<>>
    /\ calls = <<>>
    /\ checkpoints = <<>>
    /\ updates = <<>>
    /\ suspensions = <<>>
    /\ SymOff
    /\ GraphOff
    /\ ScaleOff
    /\ UmapOff
    /\ ScheduleOff
    /\ SearchOff

\* applyAttractiveUpdate(nodes, edge, alpha, ab, { minDist }) for an edge of two
\* different indices, with the default spread and minDist.
CallApplyAttractiveUpdate ==
    /\ forceCall.pc = "ready"
    /\ Len(forceCall.log) < MaxForceCalls
    /\ InWindow(sgdNodes)
    /\ \E sourceIndex \in 0..(Len(sgdNodes) - 1), targetIndex \in 0..(Len(sgdNodes) - 1),
          alpha \in ForceAlphas :
          /\ sourceIndex # targetIndex
          /\ LET edge == [ sourceIndex |-> sourceIndex, targetIndex |-> targetIndex,
                           weight |-> IF {sourceIndex, targetIndex} = {0, 1}
                                      THEN forceCall.weight ELSE CoefUnit ]
                 ab   == findABParams(DefaultSpread, DefaultMinDist)
             IN  \E noise \in NoiseFor(sgdNodes, sourceIndex, targetIndex) :
                    /\ sgdNodes' = applyAttractiveUpdate(sgdNodes, edge, alpha, ab,
                                                         DefaultMinDist, noise)
                    /\ forceCall' =
                           [forceCall EXCEPT
                               !.log = Append(@,
                                   [ kind   |-> "attractive",
                                     source |-> sourceIndex,
                                     target |-> targetIndex,
                                     weight |-> edge.weight,
                                     alpha  |-> alpha,
                                     before |-> sgdNodes,
                                     after  |-> sgdNodes',
                                     moves  |-> AttractiveMoves(sgdNodes, edge, alpha, ab,
                                                                DefaultMinDist, noise) ])]
    /\ UNCHANGED <<inNodes, inEdges, options, preparedEdges, locals, epoch, edgeIndex,
                   sampleCount, cancelled, lastMessageTime, updateCount, result, clock, pc,
                   resolved, calls, checkpoints, updates, suspensions>>
    /\ UNCHANGED <<symVars, graphVars, scaleVars, umapVars, schedVars, searchVars,
                   sharedVars>>

\* applyRepulsiveUpdate(nodes, sourceIndex, targetIndex, alpha, ab, repulsionStrength)
\* for any two indices, with the default spread and minDist.
CallApplyRepulsiveUpdate ==
    /\ forceCall.pc = "ready"
    /\ Len(forceCall.log) < MaxForceCalls
    /\ InWindow(sgdNodes)
    /\ \E sourceIndex \in 0..(Len(sgdNodes) - 1), targetIndex \in 0..(Len(sgdNodes) - 1),
          alpha \in ForceAlphas :
          \E noise \in NoiseFor(sgdNodes, sourceIndex, targetIndex) :
             /\ sgdNodes' = applyRepulsiveUpdate(sgdNodes, sourceIndex, targetIndex, alpha,
                                                 findABParams(DefaultSpread, DefaultMinDist),
                                                 Max(200, DefaultSpread), noise)
             /\ forceCall' = [forceCall EXCEPT
                                 !.log = Append(@, [ kind   |-> "repulsive",
                                                     source |-> sourceIndex,
                                                     target |-> targetIndex,
                                                     alpha  |-> alpha,
                                                     before |-> sgdNodes,
                                                     after  |-> sgdNodes' ])]
    /\ UNCHANGED <<inNodes, inEdges, options, preparedEdges, locals, epoch, edgeIndex,
                   sampleCount, cancelled, lastMessageTime, updateCount, result, clock, pc,
                   resolved, calls, checkpoints, updates, suspensions>>
    /\ UNCHANGED <<symVars, graphVars, scaleVars, umapVars, schedVars, searchVars,
                   sharedVars>>

NextForces == CallApplyAttractiveUpdate \/ CallApplyRepulsiveUpdate

SpecForces == InitForces /\ [][NextForces]_vars

(***************************************************************************)
(* Specification SpecLayout: one runLayout run, from the call to the       *)
(* resolution of its promise                                               *)
(***************************************************************************)

\* The largest step of Date.now() between two reads (the wall clock can also be set
\* back), and the largest skipInitialUpdates; the epochs are at most MaxEpochs.
MaxTick == 1
MaxSkip == 1

LayoutNode(id, x, y) == [id |-> id, x |-> x, y |-> y]

LayoutEdge(source, target, strength) ==
    [source |-> source, target |-> target, strength |-> strength]

\* Two nodes one unit apart, and a third node on top of the first.
NodeA == LayoutNode(<<"a">>, 0, 0)
NodeB == LayoutNode(<<"b">>, Grid, 0)
NodeC == LayoutNode(<<"c">>, 0, 0)

\* The arguments nodes and edges: no node; no edge; a self-loop and an edge to "z", which
\* is not a node; two nodes with an edge to "z", an edge of strength 1.0 and an edge of
\* strength 0; three nodes with one edge of strength 0.5.
InputGraphs ==
    { [nodes |-> <<>>,
       edges |-> << LayoutEdge(<<"a">>, <<"b">>, CoefUnit) >>],
      [nodes |-> << NodeA, NodeB >>,
       edges |-> <<>>],
      [nodes |-> << NodeA, NodeB >>,
       edges |-> << LayoutEdge(<<"a">>, <<"a">>, CoefUnit),
                    LayoutEdge(<<"a">>, <<"z">>, CoefUnit) >>],
      [nodes |-> << NodeA, NodeB >>,
       edges |-> << LayoutEdge(<<"z">>, <<"b">>, CoefUnit),
                    LayoutEdge(<<"a">>, <<"b">>, CoefUnit),
                    LayoutEdge(<<"b">>, <<"a">>, 0) >>],
      [nodes |-> << NodeA, NodeB, NodeC >>,
       edges |-> << LayoutEdge(<<"a">>, <<"b">>, CoefUnit \div 2) >>] }

\* The options argument: the progress options and negativeSampleRate given, or epochs only.
InputOptions ==
    [ epochs : -1..MaxEpochs, progressInterval : 0..MaxTick,
      skipInitialUpdates : 0..MaxSkip, renderSampleRate : 1..2,
      negativeSampleRate : 0..1, onProgress : {"function"} ]
    \cup [ epochs : -1..MaxEpochs, onProgress : {"function"} ]
    \cup [ epochs : -1..MaxEpochs ]

\* Three nodes with two edges, and the options of the runs on them.
TwoEdgeGraph ==
    [nodes |-> << NodeA, NodeB, NodeC >>,
     edges |-> << LayoutEdge(<<"a">>, <<"b">>, CoefUnit \div 2),
                  LayoutEdge(<<"c">>, <<"b">>, CoefUnit) >>]
TwoEdgeOptions == [ epochs : {2}, negativeSampleRate : {1, 2} ]

InitLayout ==
    /\ \/ /\ \E graph \in InputGraphs : inNodes = graph.nodes /\ inEdges = graph.edges
          /\ options \in InputOptions
       \/ /\ inNodes = TwoEdgeGraph.nodes
          /\ inEdges = TwoEdgeGraph.edges
          /\ options \in TwoEdgeOptions
    /\ sgdNodes = <<>>
    /\ preparedEdges = <<>>
    /\ locals = <<>>
    /\ epoch = 0
    /\ edgeIndex = 0
    /\ sampleCount = 0
    /\ cancelled = FALSE
    /\ lastMessageTime = 0
    /\ updateCount = 0
    /\ result = "none"
    /\ clock = 0
    /\ pc = "called"
    /\ resolved = <<>>
    /\ calls = <<>>
    /\ checkpoints = <<>>
    /\ updates = <<>>
    /\ suspensions = <<>>
    /\ SymOff
    /\ GraphOff
    /\ ScaleOff
    /\ UmapOff
    /\ ScheduleOff
    /\ SearchOff
    /\ ForcesOff
    /\ SharedOff

\* Lines 94-133: the early returns, the copies, and the values set before the loop.
Start ==
    /\ pc = "called"
    /\ IF Len(inNodes) = 0
       THEN /\ resolved' = <<>>
            /\ pc' = "resolved"
            /\ UNCHANGED <<sgdNodes, preparedEdges, locals, lastMessageTime>>
       ELSE /\ sgdNodes' = toSgdNodes(inNodes)
            /\ preparedEdges' = prepareEdgeList(toSgdNodes(inNodes), inEdges)
            /\ IF Len(prepareEdgeList(toSgdNodes(inNodes), inEdges)) = 0
               THEN /\ resolved' = toLayoutNodes(toSgdNodes(inNodes))
                    /\ pc' = "resolved"
                    /\ UNCHANGED <<locals, lastMessageTime>>
               ELSE /\ locals' = Locals(Len(inNodes), options)
                    /\ lastMessageTime' = clock
                    /\ pc' = "loop"
                    /\ UNCHANGED resolved
    /\ UNCHANGED suspensions
    /\ UNCHANGED <<schedVars, searchVars, forceVars, sharedVars>>
    /\ UNCHANGED <<inNodes, inEdges, options, epoch, edgeIndex, sampleCount, cancelled,
                   updateCount, result, clock, calls, checkpoints, updates,
                   symVars, graphVars, scaleVars, umapVars>>

\* The loop test of line 136 with <= for <: one epoch more than totalEpochs.
HasEpochInclusive(epochIndex, total) == epochIndex <= total

\* Line 136: the loop test epoch < totalEpochs.
HasEpoch(epochIndex, total) == epochIndex < total

\* Lines 136-141: the loop test and the break on cancelled.
EpochBegin ==
    /\ pc = "loop"
    /\ IF HasEpoch(epoch, totalEpochs) /\ ~cancelled
       THEN pc' = "attract" /\ edgeIndex' = 0
       ELSE pc' = "return" /\ UNCHANGED edgeIndex
    /\ UNCHANGED suspensions
    /\ UNCHANGED <<schedVars, searchVars, forceVars, sharedVars>>
    /\ UNCHANGED <<inNodes, inEdges, options, sgdNodes, preparedEdges, locals, epoch,
                   sampleCount, cancelled, lastMessageTime, updateCount, result, clock,
                   resolved, calls, checkpoints, updates, symVars, graphVars, scaleVars, umapVars>>

\* Lines 144-147: one iteration of the attractive loop; after the last one, line 150.
AttractiveStep ==
    /\ pc = "attract"
    /\ LET edge == preparedEdges[edgeIndex + 1]
       IN  /\ \E noise \in NoiseFor(sgdNodes, edge.sourceIndex, edge.targetIndex) :
                  sgdNodes' = applyAttractiveUpdate(sgdNodes, edge, alphaMilli, locals.ab,
                                                    locals.minDist, noise)
           /\ updates' = Append(updates, [kind   |-> "attractive",
                                          epoch  |-> epoch,
                                          alpha  |-> alphaMilli,
                                          edge   |-> edgeIndex,
                                          source |-> edge.sourceIndex,
                                          target |-> edge.targetIndex])
    /\ IF edgeIndex + 1 < Len(preparedEdges)
       THEN edgeIndex' = edgeIndex + 1 /\ pc' = "attract" /\ UNCHANGED sampleCount
       ELSE IF Len(sgdNodes) > 1
            THEN edgeIndex' = offset /\ sampleCount' = 0 /\ pc' = "repulse"
            ELSE pc' = "progress" /\ UNCHANGED <<edgeIndex, sampleCount>>
    /\ UNCHANGED suspensions
    /\ UNCHANGED <<schedVars, searchVars, forceVars, sharedVars>>
    /\ UNCHANGED <<inNodes, inEdges, options, preparedEdges, locals, epoch, cancelled,
                   lastMessageTime, updateCount, result, clock, resolved, calls,
                   checkpoints, symVars, graphVars, scaleVars, umapVars>>

\* A sample is skipped only when it is the source of the edge.
SkipsSampleSourceOnly(randomIndex, edge) == randomIndex = edge.sourceIndex

\* Line 160: the sample is an endpoint of the edge.
SkipsSample(randomIndex, edge) ==
    randomIndex = edge.sourceIndex \/ randomIndex = edge.targetIndex

\* Lines 156-170: one test of the two repulsive loops, or one draw of a random index.
RepulsiveStep ==
    /\ pc = "repulse"
    /\ IF edgeIndex >= Len(preparedEdges)
       THEN pc' = "progress" /\ UNCHANGED <<sgdNodes, updates, edgeIndex, sampleCount>>
       ELSE IF sampleCount >= negativeSampleRate
       THEN /\ edgeIndex' = edgeIndex + stride
            /\ sampleCount' = 0
            /\ UNCHANGED <<sgdNodes, updates, pc>>
       ELSE \E randomIndex \in 0..(Len(sgdNodes) - 1) :
            LET edge == preparedEdges[edgeIndex + 1]
            IN  /\ sampleCount' = sampleCount + 1
                /\ IF SkipsSample(randomIndex, edge)
                   THEN UNCHANGED <<sgdNodes, updates>>
                   ELSE /\ \E noise \in NoiseFor(sgdNodes, edge.sourceIndex, randomIndex) :
                               sgdNodes' = applyRepulsiveUpdate(sgdNodes, edge.sourceIndex,
                                               randomIndex, alphaMilli, locals.ab,
                                               locals.epochSettings.repulsionStrength, noise)
                        /\ updates' = Append(updates, [kind   |-> "repulsive",
                                                       epoch  |-> epoch,
                                                       alpha  |-> alphaMilli,
                                                       edge   |-> edgeIndex,
                                                       source |-> edge.sourceIndex,
                                                       target |-> randomIndex])
                /\ UNCHANGED <<pc, edgeIndex>>
    /\ UNCHANGED suspensions
    /\ UNCHANGED <<schedVars, searchVars, forceVars, sharedVars>>
    /\ UNCHANGED <<inNodes, inEdges, options, preparedEdges, locals, epoch, cancelled,
                   lastMessageTime, updateCount, result, clock, resolved, calls,
                   checkpoints, symVars, graphVars, scaleVars, umapVars>>

\* Lines 174-203: the progress check of an epoch, with the callback when it is invoked.
\* checkpoints records the qualifying checkpoints, and calls the invocations of the
\* callback, each with the value of Date.now() read in its epoch, the number of force
\* updates applied before it, and whether it returned false.
ProgressCheck ==
    /\ pc = "progress"
    /\ \E now \in Max(0, clock - MaxTick)..(clock + MaxTick) :
        LET qualifies ==
                /\ \/ ThrottleElapsed(now, lastMessageTime, locals.progressInterval)
                   \/ isFinalEpoch
                /\ HasOnProgress
            delivers ==
                /\ qualifies
                /\ ShouldRender(updateCount + 1, locals.skipInitialUpdates,
                                locals.renderSampleRate, isFinalEpoch)
        IN  /\ clock' = now
            /\ lastMessageTime' = IF qualifies THEN now ELSE lastMessageTime
            /\ updateCount' = IF qualifies THEN updateCount + 1 ELSE updateCount
            /\ checkpoints' =
                   IF qualifies
                   THEN Append(checkpoints, [epoch   |-> epoch + 1,
                                             isFinal |-> isFinalEpoch])
                   ELSE checkpoints
            /\ IF delivers
               THEN \E value \in Results :
                    /\ calls' = Append(calls, [progress       |-> progressPercent,
                                               epoch          |-> epoch + 1,
                                               alpha          |-> alphaMilli,
                                               isIntermediate |-> ~isFinalEpoch,
                                               nodes          |-> toLayoutNodes(sgdNodes),
                                               now            |-> now,
                                               updatesBefore  |-> Len(updates),
                                               returnedFalse  |-> value = "false"])
                    /\ result' = value
                    /\ cancelled' = IsCancellation(value)
                    /\ pc' = IF IsCancellation(value) THEN "return" ELSE "awaitProgress"
                    /\ suspensions' =
                           IF IsCancellation(value) THEN suspensions
                           ELSE Append(suspensions, [line          |-> 200,
                                                     epoch         |-> epoch,
                                                     updatesBefore |-> Len(updates)])
               ELSE /\ pc' = "periodic"
                    /\ UNCHANGED <<calls, result, cancelled, suspensions>>
    /\ UNCHANGED <<schedVars, searchVars, forceVars, sharedVars>>
    /\ UNCHANGED <<inNodes, inEdges, options, sgdNodes, preparedEdges, locals, epoch,
                   edgeIndex, sampleCount, resolved, updates, symVars, graphVars, scaleVars, umapVars>>

\* Line 200: the timeout awaited after a delivered callback has fired; the block that
\* holds `result` is left.
ResumeAfterProgress ==
    /\ pc = "awaitProgress"
    /\ pc' = "periodic"
    /\ result' = "none"
    /\ UNCHANGED suspensions
    /\ UNCHANGED <<schedVars, searchVars, forceVars, sharedVars>>
    /\ UNCHANGED <<inNodes, inEdges, options, sgdNodes, preparedEdges, locals, epoch,
                   edgeIndex, sampleCount, cancelled, lastMessageTime, updateCount, clock,
                   resolved, calls, checkpoints, updates, symVars, graphVars, scaleVars, umapVars>>

\* The periodic yield taken at the epochs before a multiple of YIELD_EVERY_EPOCHS.
YieldsAtNext(epochIndex) == (epochIndex + 1) % YIELD_EVERY_EPOCHS = 0

\* epoch % YIELD_EVERY_EPOCHS === 0
YieldsAt(epochIndex) == epochIndex % YIELD_EVERY_EPOCHS = 0

\* Lines 206-208, and the epoch++ of line 136 when the epoch does not yield.
PeriodicYield ==
    /\ pc = "periodic"
    /\ IF YieldsAt(epoch)
       THEN /\ pc' = "awaitPeriodic"
            /\ suspensions' = Append(suspensions, [line          |-> 207,
                                                   epoch         |-> epoch,
                                                   updatesBefore |-> Len(updates)])
            /\ UNCHANGED epoch
       ELSE pc' = "loop" /\ epoch' = epoch + 1 /\ UNCHANGED suspensions
    /\ UNCHANGED <<schedVars, searchVars, forceVars, sharedVars>>
    /\ UNCHANGED <<inNodes, inEdges, options, sgdNodes, preparedEdges, locals, edgeIndex,
                   sampleCount, cancelled, lastMessageTime, updateCount, result, clock,
                   resolved, calls, checkpoints, updates, symVars, graphVars, scaleVars, umapVars>>

\* Line 207: the periodic timeout has fired; then the epoch++ of line 136.
ResumeAfterYield ==
    /\ pc = "awaitPeriodic"
    /\ pc' = "loop"
    /\ epoch' = epoch + 1
    /\ UNCHANGED suspensions
    /\ UNCHANGED <<schedVars, searchVars, forceVars, sharedVars>>
    /\ UNCHANGED <<inNodes, inEdges, options, sgdNodes, preparedEdges, locals, edgeIndex,
                   sampleCount, cancelled, lastMessageTime, updateCount, result, clock,
                   resolved, calls, checkpoints, updates, symVars, graphVars, scaleVars, umapVars>>

\* Line 211: the promise resolves to a copy of the positions.
Return ==
    /\ pc = "return"
    /\ resolved' = toLayoutNodes(sgdNodes)
    /\ pc' = "resolved"
    /\ UNCHANGED suspensions
    /\ UNCHANGED <<schedVars, searchVars, forceVars, sharedVars>>
    /\ UNCHANGED <<inNodes, inEdges, options, sgdNodes, preparedEdges, locals, epoch,
                   edgeIndex, sampleCount, cancelled, lastMessageTime, updateCount, result,
                   clock, calls, checkpoints, updates, symVars, graphVars, scaleVars, umapVars>>

NextLayout ==
    \/ Start
    \/ EpochBegin
    \/ AttractiveStep
    \/ RepulsiveStep
    \/ ProgressCheck
    \/ ResumeAfterProgress
    \/ PeriodicYield
    \/ ResumeAfterYield
    \/ Return

SpecLayout == InitLayout /\ [][NextLayout]_vars

\* The run under its scheduling: the awaited timeouts of lines 201 and 207 fire, the
\* callback of line 190 returns, and the synchronous code between them runs on, so a
\* step of the run that stays possible is eventually taken.
\* The inputs of the runs under fairness: every graph of InputGraphs and the graph of
\* two edges, with the callback given or not and the other options at their defaults.
FairOptions ==
    [ epochs : -1..2, onProgress : {"function"} ]
    \cup [ epochs : -1..MaxEpochs ]
    \cup TwoEdgeOptions

InitLayoutFair == InitLayout /\ options \in FairOptions

SpecLayoutFair == InitLayoutFair /\ [][NextLayout]_vars /\ WF_vars(NextLayout)

(***************************************************************************)
(* Specification SpecUmap: one umapLayout call, from the call to the       *)
(* resolution of its promise                                               *)
(***************************************************************************)

\* The pairs of values the two calls of Math.random() * 100 for a node take here.
RandomPositions == { <<0, 0>>, <<Grid, 0>> }

\* Symmetrized strengths are in steps of 1 / (Unit * Unit); the layout reads them in
\* steps of 1 / CoefUnit.
ToLayoutEdges(edges) ==
    [i \in DOMAIN edges |->
        LayoutEdge(edges[i].source, edges[i].target,
                   edges[i].strength \div ((Unit * Unit) \div CoefUnit))]

\* Lines 174-191: one node for each key; positionMap.get(id) is the last node of
\* initialPositions with that id, and a key without one gets random coordinates.
InitialNodes(graph, initial, randoms) ==
    [i \in DOMAIN graph |->
        IF initial.given /\ NodeIndex(initial.nodes, graph[i].id) >= 0
        THEN initial.nodes[NodeIndex(initial.nodes, graph[i].id) + 1]
        ELSE LayoutNode(graph[i].id, randoms[i][1], randoms[i][2])]

\* Neighbor lists of "a", "b" and "z" with distances 0, 1, ... in order.
UmapNeighborLists ==
    { ns \in NeighborLists :
        \A j \in DOMAIN ns : ns[j].distance = j - 1 /\ Len(ns[j].id) = 1 }

\* The k-NN graphs passed to umapLayout.
UmapGraphs ==
    { g \in BoundedSeq([id : {<<"a">>, <<"b">>}, neighbors : UmapNeighborLists], MaxPoints) :
        \A i, j \in DOMAIN g : g[i].id = g[j].id => i = j }

\* options.initialPositions: absent, or positions for "z", which is not a key, and two
\* for "a", and none for "b".
UmapInitialPositions ==
    { [given |-> FALSE, nodes |-> <<>>],
      [given |-> TRUE,  nodes |-> << LayoutNode(<<"z">>, Grid, Grid),
                                     LayoutNode(<<"a">>, Grid, 0),
                                     LayoutNode(<<"a">>, 0, 2 * Grid) >>] }

\* The graph options and the layout options of the call.
UmapGraphOptions ==
    { [k |-> [type |-> "undefined", value |-> 0], symmetryMode |-> "undefined"],
      [k |-> [type |-> "number", value |-> 2],    symmetryMode |-> "product"] }
UmapLayoutOptions ==
    { [epochs |-> 2, onProgress |-> "function"], [epochs |-> 0] }

InitUmap ==
    /\ knn \in UmapGraphs
    /\ gK = [type |-> "undefined", value |-> 0]
    /\ gMode = "undefined"
    /\ gDirected = <<>>
    /\ gEdges = <<>>
    /\ gPc = "ready"
    /\ kCalls = 0
    /\ initialPositions = [given |-> FALSE, nodes |-> <<>>]
    /\ uPc = "ready"
    /\ SymOff
    /\ ScaleOff
    /\ LayoutOff
    /\ ScheduleOff
    /\ SearchOff
    /\ ForcesOff
    /\ SharedOff

\* Lines 165-206: buildGraph, the initial nodes, and the call of runLayout, which runs
\* from there as in SpecLayout.
CallUmapLayout ==
    /\ uPc = "ready"
    /\ \E graphOptions \in UmapGraphOptions, initial \in UmapInitialPositions,
          opts \in UmapLayoutOptions, randoms \in [DOMAIN knn -> RandomPositions] :
        /\ gK' = graphOptions.k
        /\ gMode' = graphOptions.symmetryMode
        /\ gDirected' = neighborhoodsToEdges(knn, ResolveK(graphOptions.k, Len(knn)))
        /\ gEdges' = buildGraph(knn, graphOptions.k, graphOptions.symmetryMode)
        /\ kCalls' = KFunctionCalls(knn, graphOptions.k)
        /\ initialPositions' = initial
        /\ inNodes' = InitialNodes(knn, initial, randoms)
        /\ inEdges' = ToLayoutEdges(buildGraph(knn, graphOptions.k,
                                               graphOptions.symmetryMode))
        /\ options' = opts
    /\ gPc' = "graphDone"
    /\ uPc' = "called"
    /\ pc' = "called"
    /\ UNCHANGED suspensions
    /\ UNCHANGED <<schedVars, searchVars, forceVars, sharedVars>>
    /\ UNCHANGED <<knn, sgdNodes, preparedEdges, locals, epoch, edgeIndex, sampleCount,
                   cancelled, lastMessageTime, updateCount, result, clock, resolved, calls,
                   checkpoints, updates, symVars, scaleVars>>

NextUmap ==
    \/ CallUmapLayout
    \/ Start
    \/ EpochBegin
    \/ AttractiveStep
    \/ RepulsiveStep
    \/ ProgressCheck
    \/ ResumeAfterProgress
    \/ PeriodicYield
    \/ ResumeAfterYield
    \/ Return

SpecUmap == InitUmap /\ [][NextUmap]_vars

(***************************************************************************)
(* Specification 6: the schedule of runLayout.  The loop of lines 136-208  *)
(* on a layout of sgdNodeCount nodes and preparedEdgeCount prepared edges, *)
(* without onProgress: the alpha, the stride and the offset of every       *)
(* epoch, and the edges its repulsive loop visits.  The positions have no  *)
(* part in the schedule and are left out; sgdNodeCount is at least 2, as   *)
(* it is whenever an edge is prepared.                                     *)
(***************************************************************************)

\* The options argument: epochs, with or without initialAlpha and finalAlpha.
ScheduleOptions ==
    [ epochs : 1..MaxEpochs ]
    \cup [ epochs : 1..MaxEpochs, initialAlpha : ScheduleAlphas, finalAlpha : ScheduleAlphas ]

\* Lines 108-134: the state before the loop.
InitSchedule ==
    /\ sgdNodeCount \in ScheduleNodeCounts
    /\ preparedEdgeCount \in 1..MaxEdgeCount
    /\ options \in ScheduleOptions
    /\ locals = Locals(sgdNodeCount, options)
    /\ epoch = 0
    /\ edgeIndex = 0
    /\ pc = "loop"
    /\ epochLog = <<>>
    /\ sampled = {}
    /\ inNodes = <<>>
    /\ inEdges = <<>>
    /\ sgdNodes = <<>>
    /\ preparedEdges = <<>>
    /\ sampleCount = 0
    /\ cancelled = FALSE
    /\ lastMessageTime = 0
    /\ updateCount = 0
    /\ result = "none"
    /\ clock = 0
    /\ resolved = <<>>
    /\ calls = <<>>
    /\ checkpoints = <<>>
    /\ updates = <<>>
    /\ suspensions = <<>>
    /\ SymOff
    /\ GraphOff
    /\ ScaleOff
    /\ UmapOff
    /\ SearchOff
    /\ ForcesOff
    /\ SharedOff

\* Lines 136-153: the loop test, the alpha of the epoch (with which the attractive loop
\* of lines 144-147 runs), and the stride and the offset of its repulsive loop.
ScheduleEpoch ==
    /\ pc = "loop"
    /\ IF epoch < totalEpochs
       THEN /\ epochLog' = Append(epochLog, [ epoch    |-> epoch,
                                              progress |-> progressRatio,
                                              alpha    |-> currentAlpha,
                                              stride   |-> stride,
                                              offset   |-> offset ])
            /\ edgeIndex' = offset
            /\ pc' = "repulse"
       ELSE /\ pc' = "return"
            /\ UNCHANGED <<epochLog, edgeIndex>>
    /\ UNCHANGED <<sgdNodeCount, preparedEdgeCount, sampled>>
    /\ UNCHANGED <<inNodes, inEdges, options, sgdNodes, preparedEdges, locals, epoch,
                   sampleCount, cancelled, lastMessageTime, updateCount, result, clock,
                   resolved, calls, checkpoints, updates, suspensions,
                   symVars, graphVars, scaleVars, umapVars, searchVars, forceVars,
                   sharedVars>>

\* Lines 155-169: one iteration of the repulsive loop, for the edge with index i, and
\* i += stride; after the last one the epoch ends (lines 174-208 without onProgress).
ScheduleSample ==
    /\ pc = "repulse"
    /\ IF edgeIndex < preparedEdgeCount
       THEN /\ sampled' = sampled \cup { <<epoch, edgeIndex>> }
            /\ edgeIndex' = edgeIndex + stride
            /\ UNCHANGED <<epoch, pc>>
       ELSE /\ epoch' = epoch + 1
            /\ pc' = "loop"
            /\ UNCHANGED <<sampled, edgeIndex>>
    /\ UNCHANGED <<sgdNodeCount, preparedEdgeCount, epochLog>>
    /\ UNCHANGED <<inNodes, inEdges, options, sgdNodes, preparedEdges, locals,
                   sampleCount, cancelled, lastMessageTime, updateCount, result, clock,
                   resolved, calls, checkpoints, updates, suspensions,
                   symVars, graphVars, scaleVars, umapVars, searchVars, forceVars,
                   sharedVars>>

NextSchedule ==
    \/ ScheduleEpoch
    \/ ScheduleSample

SpecSchedule == InitSchedule /\ [][NextSchedule]_vars

(***************************************************************************)
(* Claims about symmetrizeEdges (checked under SpecSym)                    *)
(***************************************************************************)

\* The unordered pairs that occur in a directed edge list.
PairOf(e) == {e.source, e.target}
PairsOf(edges) == { PairOf(edges[i]) : i \in DOMAIN edges }
FirstIndexOf(edges, pair) ==
    CHOOSE i \in DOMAIN edges :
        /\ PairOf(edges[i]) = pair
        /\ \A j \in DOMAIN edges : PairOf(edges[j]) = pair => i <= j

\* C7: the output of symmetrizeEdges holds exactly one edge for each unordered pair
\* {u, v} that occurs in the input (as u->v or v->u), no edge for any other pair, and
\* the output edges are in the order in which their pairs first appear in the input,
\* for arbitrary string ids and every mode.
C7_OneEdgePerPair ==
    symPc = "done" =>
        /\ PairsOf(symOut) = PairsOf(symIn)
        /\ Len(symOut) = Cardinality(PairsOf(symIn))
        /\ \A m1, m2 \in DOMAIN symOut :
               m1 < m2 => FirstIndexOf(symIn, PairOf(symOut[m1]))
                            < FirstIndexOf(symIn, PairOf(symOut[m2]))

\* Each ordered pair (source, target) occurs at most once in the list.
OrderedPairsUnique(edges) ==
    \A i, j \in DOMAIN edges :
        (edges[i].source = edges[j].source /\ edges[i].target = edges[j].target) => i = j

\* The strength of u->v in the list, 0 when that direction is absent.
DirectedStrength(edges, u, v) ==
    IF \E i \in DOMAIN edges : edges[i].source = u /\ edges[i].target = v
    THEN edges[CHOOSE i \in DOMAIN edges : edges[i].source = u /\ edges[i].target = v].strength
    ELSE 0

\* C8: when each ordered pair occurs at most once in the input, the edge emitted for
\* {u, v} has strength a + b - a*b in mode 'fuzzy-union' (and for any unknown mode),
\* a*b in mode 'product' and sqrt(a*b) in mode 'geometric', where a is the strength of
\* u->v and b the strength of v->u, each 0 when that direction is absent.
C8_CombinedStrength ==
    (symPc = "done" /\ OrderedPairsUnique(symIn)) =>
        \A m \in DOMAIN symOut :
            LET a == DirectedStrength(symIn, symOut[m].source, symOut[m].target)
                b == DirectedStrength(symIn, symOut[m].target, symOut[m].source)
            IN  symOut[m].strength =
                    CASE symMode = "product"   -> a * b
                      [] symMode = "geometric" -> Sqrt(a * b) * Unit
                      [] OTHER                 -> (a + b) * Unit - a * b

(***************************************************************************)
(* Claims about neighborhoodsToEdges and buildGraph (checked under         *)
(* SpecGraph)                                                              *)
(***************************************************************************)

\* Some edge of the list goes from u to v.
HasDirected(edges, u, v) ==
    \E i \in DOMAIN edges : edges[i].source = u /\ edges[i].target = v

EdgeEntries(graph) ==
    { p \in UNION { { <<i, j>> : j \in DOMAIN graph[i].neighbors } : i \in DOMAIN graph } :
        /\ graph[p[1]].neighbors[p[2]].id # graph[p[1]].id
        /\ graph[p[1]].neighbors[p[2]].id \in KeysOf(graph) }

\* Graph key order, and neighbor-list order within a point.
EntryBefore(p, q) == p[1] < q[1] \/ (p[1] = q[1] /\ p[2] < q[2])

\* The place of an entry among the entries that must produce an edge.
EntryRank(graph, p) == Cardinality({ q \in EdgeEntries(graph) : EntryBefore(q, p) }) + 1

\* C10: neighborhoodsToEdges returns exactly one directed edge (p, n.id) for each
\* neighbor entry n of point p with n.id # p and n.id a key of the graph, in graph key
\* order and within a point in neighbor-list order; other entries produce no edge; and
\* every emitted edge has strength >= 0.001.
C10_DirectedEdgesExact ==
    gPc \in {"edgesDone", "graphDone"} =>
        /\ Len(gDirected) = Cardinality(EdgeEntries(knn))
        /\ \A p \in EdgeEntries(knn) :
               /\ gDirected[EntryRank(knn, p)].source = knn[p[1]].id
               /\ gDirected[EntryRank(knn, p)].target = knn[p[1]].neighbors[p[2]].id
        /\ \A m \in DOMAIN gDirected : gDirected[m].strength >= 1

\* Witness of C10: neighborhoodsToEdges has run on a graph with a self entry and a
\* dangling entry, and has emitted at least two edges.
C10_Witness ==
    /\ gPc = "edgesDone"
    /\ \E i \in DOMAIN knn : \E j \in DOMAIN knn[i].neighbors :
           knn[i].neighbors[j].id = knn[i].id
    /\ \E i \in DOMAIN knn : \E j \in DOMAIN knn[i].neighbors :
           knn[i].neighbors[j].id \notin KeysOf(knn)
    /\ Len(gDirected) >= 2

(***************************************************************************)
(* Claims about runLayout (checked under SpecLayout)                       *)
(***************************************************************************)

\* The run has entered its epoch loop: it has nodes and at least one prepared edge.
Live == Len(preparedEdges) > 0

\* Some invocation of the callback returned the boolean false.
FalseReturned == \E n \in DOMAIN calls : calls[n].returnedFalse

\* The callback was invoked in the epoch numbered e (counted from 1).
InvokedAt(e) == \E n \in DOMAIN calls : calls[n].epoch = e

\* The run has epochs and has applied no update of its last one.
LastEpochNotExecuted ==
    /\ totalEpochs >= 1
    /\ ~\E u \in DOMAIN updates : updates[u].epoch = totalEpochs - 1

\* C1: for every n >= 1, when the n-th invocation of the progress callback returns false,
\* the callback is invoked exactly n times in total and no attractive or repulsive update
\* of a later epoch is applied.
C1_FalseEndsCallbacksAndUpdates ==
    \A n \in DOMAIN calls :
        calls[n].returnedFalse =>
            /\ Len(calls) = n
            /\ \A u \in DOMAIN updates : updates[u].epoch + 1 <= calls[n].epoch

\* Witness of C1: a run has resolved after its third invocation returned false before the
\* last epoch, as in the cancellation test.
C1_Witness ==
    /\ pc = "resolved"
    /\ Len(calls) = 3
    /\ calls[3].returnedFalse
    /\ calls[3].isIntermediate
    /\ Len(updates) > 0

\* C2: a run with an onProgress callback, at least one prepared edge and totalEpochs >= 1
\* that is not cancelled before its last epoch invokes the callback for the last epoch,
\* with epoch = totalEpochs, isIntermediate = false and progress = 100.
C2_LastEpochReported ==
    ( /\ pc = "resolved"
      /\ Live
      /\ HasOnProgress
      /\ totalEpochs >= 1
      /\ ~\E n \in DOMAIN calls : calls[n].returnedFalse /\ calls[n].epoch < totalEpochs )
    => \E n \in DOMAIN calls :
           /\ calls[n].epoch = totalEpochs
           /\ ~calls[n].isIntermediate
           /\ calls[n].progress = 100

\* Witness of C2: a run of several epochs in which the clock never advanced, with
\* skipInitialUpdates = 1 and renderSampleRate = 2, has resolved with the report of its
\* last epoch as the only invocation.
C2_Witness ==
    /\ pc = "resolved"
    /\ Live
    /\ totalEpochs >= 2
    /\ clock = 0
    /\ locals.skipInitialUpdates = 1
    /\ locals.renderSampleRate = 2
    /\ Len(calls) = 1
    /\ calls[1].epoch = totalEpochs

\* C3: for any two invocations of the callback in one run of which the later one is not
\* for the last epoch, the clock value read at the later one exceeds the clock value read
\* at the earlier one by more than progressInterval.
C3_NonFinalCallsThrottled ==
    \A j, n \in DOMAIN calls :
        (j < n /\ calls[n].isIntermediate) =>
            calls[n].now - calls[j].now > locals.progressInterval

\* Witness of C3: two invocations with a positive progressInterval, the second one not
\* for the last epoch.
C3_Witness ==
    /\ Len(calls) >= 2
    /\ calls[2].isIntermediate
    /\ locals.progressInterval >= 1

\* C4: a non-final qualifying checkpoint numbered c (from 1) invokes the callback if and
\* only if c > skipInitialUpdates and (renderSampleRate <= 1 or
\* (c - skipInitialUpdates - 1) mod renderSampleRate = 0).
C4_SkipThenEveryNth ==
    \A c \in DOMAIN checkpoints :
        ~checkpoints[c].isFinal =>
            ( InvokedAt(checkpoints[c].epoch) <=>
                /\ c > locals.skipInitialUpdates
                /\ \/ locals.renderSampleRate <= 1
                   \/ (c - locals.skipInitialUpdates - 1) % locals.renderSampleRate = 0 )

\* Witness of C4: with skipInitialUpdates = 1 and renderSampleRate = 2, four non-final
\* qualifying checkpoints of which the second and the fourth invoked the callback.
C4_Witness ==
    /\ Len(checkpoints) >= 4
    /\ ~checkpoints[4].isFinal
    /\ locals.skipInitialUpdates = 1
    /\ locals.renderSampleRate = 2
    /\ ~InvokedAt(checkpoints[1].epoch)
    /\ InvokedAt(checkpoints[2].epoch)
    /\ ~InvokedAt(checkpoints[3].epoch)
    /\ InvokedAt(checkpoints[4].epoch)

\* C5 as claimed: a run stops before its last epoch if and only if some invocation of the
\* callback returned the boolean false; the other values never cancel.
C5_StopsEarlyIffFalseReturned ==
    /\ result \in Results \ {"false"} => ~cancelled
    /\ (pc = "resolved" /\ Live) => (LastEpochNotExecuted <=> FalseReturned)

\* C5 as amended: a run stops before its last epoch if and only if an invocation of the
\* callback for an epoch before the last one returned the boolean false; false returned
\* for the last epoch leaves nothing to cancel, and the other values never cancel.
C5_StopsEarlyIffFalseBeforeLastEpoch ==
    /\ result \in Results \ {"false"} => ~cancelled
    /\ cancelled => FalseReturned
    /\ (pc = "resolved" /\ Live) =>
           ( LastEpochNotExecuted <=>
                 \E n \in DOMAIN calls : calls[n].returnedFalse /\ calls[n].isIntermediate )

\* Witness of C5: a run has resolved after all its epochs, and the invocation for its
\* last epoch returned false after an earlier invocation had returned another value.
C5_Witness ==
    /\ pc = "resolved"
    /\ Live
    /\ totalEpochs >= 2
    /\ Len(calls) >= 2
    /\ calls[Len(calls)].returnedFalse
    /\ ~calls[Len(calls)].isIntermediate
    /\ \E u \in DOMAIN updates : updates[u].epoch = totalEpochs - 1

\* Every edge has an endpoint that is not a node, or is a self-loop.
NoEdgeSurvives ==
    \A i \in DOMAIN inEdges :
        \/ ~\E j \in DOMAIN inNodes : inNodes[j].id = inEdges[i].source
        \/ ~\E j \in DOMAIN inNodes : inNodes[j].id = inEdges[i].target
        \/ inEdges[i].source = inEdges[i].target

\* C6: when the node list is empty, when no edge survives reindexing, or when
\* epochs <= 0, runLayout applies no force update, never invokes onProgress, and resolves
\* to nodes with the ids, the order and the coordinates of the input nodes.
C6_DegenerateRunReturnsInput ==
    (Len(inNodes) = 0 \/ NoEdgeSurvives \/ options.epochs <= 0) =>
        /\ updates = <<>>
        /\ calls = <<>>
        /\ pc = "resolved" =>
               /\ Len(resolved) = Len(inNodes)
               /\ \A i \in DOMAIN inNodes :
                      /\ resolved[i].id = inNodes[i].id
                      /\ resolved[i].x = inNodes[i].x
                      /\ resolved[i].y = inNodes[i].y

\* Witness of C6: a run with nodes, with edges of which none survives, with a callback
\* and with epochs >= 1 has resolved.
C6_Witness ==
    /\ pc = "resolved"
    /\ Len(inNodes) > 0
    /\ Len(inEdges) > 0
    /\ NoEdgeSurvives
    /\ HasOnProgress
    /\ options.epochs >= 1

(***************************************************************************)
(* Claims about umapLayout (checked under SpecUmap)                        *)
(***************************************************************************)

\* C11: both endpoints of every edge buildGraph returns are keys of the graph and differ
\* from each other, and umapLayout resolves to exactly one node for each key of the graph,
\* in key order, so that an id found only among the neighbors or only in initialPositions
\* never becomes a node.
C11_NodesAreTheKeys ==
    /\ gPc = "graphDone" =>
           \A m \in DOMAIN gEdges :
               /\ gEdges[m].source \in KeysOf(knn)
               /\ gEdges[m].target \in KeysOf(knn)
               /\ gEdges[m].source # gEdges[m].target
    /\ uPc = "called" =>
           /\ Len(inNodes) = Len(knn)
           /\ \A i \in DOMAIN knn : inNodes[i].id = knn[i].id
    /\ (uPc = "called" /\ pc = "resolved") =>
           /\ Len(resolved) = Len(knn)
           /\ \A i \in DOMAIN knn : resolved[i].id = knn[i].id

\* Witness of C11: a call with two keys has resolved after force updates; "z" was a
\* neighbor and had an initial position, and so had "a", while "b" had none.
C11_Witness ==
    /\ uPc = "called"
    /\ pc = "resolved"
    /\ Len(knn) = 2
    /\ initialPositions.given
    /\ \E i \in DOMAIN knn : \E j \in DOMAIN knn[i].neighbors :
           knn[i].neighbors[j].id = <<"z">>
    /\ Len(gEdges) > 0
    /\ Len(updates) > 0

(***************************************************************************)
(* Claims about applyWeightSpaceScaling and calibrateSigma, and about      *)
(* buildGraph on an empty graph (checked under SpecScale)                  *)
(***************************************************************************)

StrictlyIncreasing(ns) ==
    \A j \in 1..(Len(ns) - 1) : ns[j].distance < ns[j + 1].distance

\* C12: for every non-empty neighbor list sorted by strictly increasing distance and every
\* k, applyWeightSpaceScaling returns the same neighbors in the same order, the first
\* neighbor has weight exactly 1.0, and the weights are non-increasing along the list.
C12_NearestFirstWeightsDescend ==
    (wPc = "done" /\ Len(wIn) > 0 /\ StrictlyIncreasing(wIn)) =>
        /\ Len(wOut) = Len(wIn)
        /\ \A j \in DOMAIN wIn :
               /\ wOut[j].id = wIn[j].id
               /\ wOut[j].distance = wIn[j].distance
        /\ wOut[1].weight = Unit
        /\ \A j \in 1..(Len(wOut) - 1) : wOut[j].weight >= wOut[j + 1].weight

\* Witness of C12: three neighbors at strictly increasing distances have been scaled, and
\* the weights returned are strictly decreasing.
C12_Witness ==
    /\ wPc = "done"
    /\ Len(wIn) = 3
    /\ StrictlyIncreasing(wIn)
    /\ wOut[1].weight > wOut[2].weight
    /\ wOut[2].weight > wOut[3].weight
    /\ wOut[3].weight > 0

\* The membership-strength sum at the sigma returned is not within the tolerance of
\* log2(k).
NotConverged ==
    ~Converged(MembershipSum(wIn, wIn[1].distance, wSigma, 1), Log2(wK))

\* C13 as claimed: whenever the binary search of the sigma calibration does not converge
\* within its 64 iterations, the sigma used to compute the weights is the default 1.0.
C13_DefaultSigmaWhenNotConverged ==
    (wPc = "done" /\ Len(wIn) > 0 /\ NotConverged) => wSigma = FOne

\* C14: buildGraph on an empty neighbor graph returns an empty edge list at once, without
\* resolving k (a function given as options.k is not called), and applyWeightSpaceScaling
\* on an empty list returns an empty list; neither raises.
C14_EmptyInEmptyOut ==
    /\ (gPc = "graphDone" /\ Len(knn) = 0) => (gEdges = <<>> /\ kCalls = 0)
    /\ (wPc = "done" /\ Len(wIn) = 0) => wOut = <<>>

\* Witness of C14: buildGraph has returned for the empty graph and a function as
\* options.k, and applyWeightSpaceScaling has returned for the empty list.
C14_Witness ==
    /\ gPc = "graphDone"
    /\ Len(knn) = 0
    /\ gK.type = "function"
    /\ wPc = "done"
    /\ Len(wIn) = 0

(***************************************************************************)
(* Claims about the epochs of runLayout (checked under SpecLayout)         *)
(***************************************************************************)

\* The attractive updates of the epoch with index e among the first n updates.
AttractiveOf(e, n) ==
    { u \in 1..n : updates[u].kind = "attractive" /\ updates[u].epoch = e }

\* C15: the progress callback of an epoch is invoked only after all attractive and all
\* repulsive updates of that epoch have been applied, and when it returns false the run
\* resolves to exactly the positions of the snapshot passed to that invocation: nothing
\* is rolled back and no further update is applied.
C15_CallbackAfterUpdatesAndCancelKeepsSnapshot ==
    \A n \in DOMAIN calls :
        /\ Cardinality(AttractiveOf(calls[n].epoch - 1, calls[n].updatesBefore))
               = Len(preparedEdges)
        /\ \A u \in DOMAIN updates :
               updates[u].epoch = calls[n].epoch - 1 => u <= calls[n].updatesBefore
        /\ calls[n].returnedFalse =>
               /\ Len(updates) = calls[n].updatesBefore
               /\ toLayoutNodes(sgdNodes) = calls[n].nodes
               /\ pc = "resolved" => resolved = calls[n].nodes

\* Witness of C15: a run has resolved after an invocation before the last epoch returned
\* false; the snapshot of that invocation holds positions that the updates have moved.
C15_Witness ==
    /\ pc = "resolved"
    /\ Len(calls) >= 2
    /\ calls[Len(calls)].returnedFalse
    /\ calls[Len(calls)].isIntermediate
    /\ calls[Len(calls)].nodes # inNodes
    /\ calls[Len(calls)].nodes # calls[1].nodes

\* The suspensions at the given line for the epoch with index e.
SuspensionsAt(line, e) ==
    { i \in DOMAIN suspensions : suspensions[i].line = line /\ suspensions[i].epoch = e }

\* The epoch with index e has run to its end without being cancelled.
EndedEpoch(e) == e < epoch \/ (e = epoch /\ pc = "awaitPeriodic")

\* C16: a run suspends exactly once after each delivered progress callback that did not
\* cancel, immediately after it, exactly once at the end of each executed, non-cancelled
\* epoch whose index is a multiple of 5, and nowhere else; no suspension lies between two
\* force updates of one epoch.
C16_SuspensionPoints ==
    /\ \A n \in DOMAIN calls :
           IF calls[n].returnedFalse
           THEN SuspensionsAt(200, calls[n].epoch - 1) = {}
           ELSE /\ Cardinality(SuspensionsAt(200, calls[n].epoch - 1)) = 1
                /\ \A i \in SuspensionsAt(200, calls[n].epoch - 1) :
                       suspensions[i].updatesBefore = calls[n].updatesBefore
    /\ \A e \in 0..MaxEpochs :
           /\ SuspensionsAt(200, e) # {} => InvokedAt(e + 1)
           /\ Cardinality(SuspensionsAt(207, e)) = IF e % 5 = 0 /\ EndedEpoch(e) THEN 1 ELSE 0
    /\ \A i \in DOMAIN suspensions :
           /\ suspensions[i].line \in {200, 207}
           /\ suspensions[i].epoch \in 0..MaxEpochs
           /\ \A u \in DOMAIN updates :
                  u <= suspensions[i].updatesBefore <=> updates[u].epoch <= suspensions[i].epoch

\* Witness of C16: a run of six epochs has resolved; it was suspended twice in its first
\* epoch, after the callback and at the end, after the callback of a later epoch, and at
\* the end of the epoch with index 5.
C16_Witness ==
    /\ pc = "resolved"
    /\ SuspensionsAt(200, 0) # {}
    /\ SuspensionsAt(207, 0) # {}
    /\ SuspensionsAt(200, 2) # {}
    /\ SuspensionsAt(207, 5) # {}
    /\ Len(updates) > 0

\* The alpha of line 141 for the epoch with index e.
EpochAlpha(e) ==
    ToMilli(computeFrontLoadedAlpha(ProgressRatio(e, totalEpochs),
                                    locals.epochSettings.initialAlpha,
                                    locals.epochSettings.finalAlpha))

\* The attractive loop of the epoch with index e has ended.
AttractedEpoch(e) ==
    \/ e < epoch
    \/ /\ e = epoch
       /\ pc \in {"repulse", "progress", "awaitProgress", "periodic", "awaitPeriodic"}
    \/ e = epoch /\ cancelled

\* C17: in every epoch that executes, the attractive update is applied exactly once to
\* each prepared edge, in array order and with the alpha of that epoch, and all of them
\* are applied before the first repulsive update of that epoch.
C17_AttractiveOncePerEdgeInOrder ==
    /\ \A u \in DOMAIN updates :
           LET e == updates[u].epoch
               before == Cardinality(AttractiveOf(e, u))
           IN  /\ updates[u].alpha = EpochAlpha(e)
               /\ IF updates[u].kind = "attractive"
                  THEN /\ before <= Len(preparedEdges)
                       /\ updates[u].source = preparedEdges[before].sourceIndex
                       /\ updates[u].target = preparedEdges[before].targetIndex
                  ELSE /\ before = Len(preparedEdges)
                       /\ Cardinality(AttractiveOf(e, Len(updates))) = Len(preparedEdges)
    /\ Live =>
           \A e \in 0..MaxEpochs :
               AttractedEpoch(e) =>
                   Cardinality(AttractiveOf(e, Len(updates))) = Len(preparedEdges)

\* Witness of C17: two epochs of a run with two prepared edges and three nodes have been
\* executed, with repulsive updates in both.
C17_Witness ==
    /\ pc = "resolved"
    /\ Len(preparedEdges) = 2
    /\ Len(sgdNodes) = 3
    /\ \E u, v \in DOMAIN updates :
           /\ updates[u].kind = "repulsive" /\ updates[u].epoch = 0
           /\ updates[v].kind = "repulsive" /\ updates[v].epoch = 1

\* The repulsive updates of the epoch with index e for the prepared edge with index i.
RepulsiveOf(e, i) ==
    { u \in DOMAIN updates :
        updates[u].kind = "repulsive" /\ updates[u].epoch = e /\ updates[u].edge = i }

\* C18: every repulsive update is applied to the source of a sampled prepared edge and a
\* valid node index that is neither the source nor the target of that edge; a sampled
\* edge gets at most negativeSampleRate repulsive updates in an epoch, and a run with at
\* most two nodes gets none.
C18_RepulsiveTargetsAreOtherNodes ==
    /\ \A u \in DOMAIN updates :
           updates[u].kind = "repulsive" =>
               /\ updates[u].edge \in 0..(Len(preparedEdges) - 1)
               /\ updates[u].source = preparedEdges[updates[u].edge + 1].sourceIndex
               /\ updates[u].target \in 0..(Len(sgdNodes) - 1)
               /\ updates[u].target # preparedEdges[updates[u].edge + 1].sourceIndex
               /\ updates[u].target # preparedEdges[updates[u].edge + 1].targetIndex
               /\ Cardinality(RepulsiveOf(updates[u].epoch, updates[u].edge))
                      <= negativeSampleRate
    /\ Len(sgdNodes) <= 2 => \A u \in DOMAIN updates : updates[u].kind # "repulsive"

\* Witness of C18: with negativeSampleRate = 2 and three nodes, an edge has got two
\* repulsive updates in one epoch and the other edge one.
C18_Witness ==
    /\ Len(sgdNodes) = 3
    /\ Len(preparedEdges) = 2
    /\ negativeSampleRate = 2
    /\ Cardinality(RepulsiveOf(0, 0)) = 2
    /\ Cardinality(RepulsiveOf(0, 1)) = 1
    /\ pc = "progress"


(***************************************************************************)
(* Claims about the schedule of runLayout (under SpecSchedule)             *)
(***************************************************************************)

\* The indices of the prepared edges, and those the repulsive loop of epoch e visited.
EdgeIndices == 0..(preparedEdgeCount - 1)
SampledIn(e) == { i \in EdgeIndices : <<e, i>> \in sampled }

\* The repulsive loop of the epoch of the k-th entry of epochLog has ended.
SampledEpoch(k) == epochLog[k].epoch < epoch

\* progressRatio < fullCoverageRatio
InFullCoverage(k) ==
    epochLog[k].progress.num * Unit < locals.fullCoverageRatio * epochLog[k].progress.den

\* C19: the stride of every epoch is 1 or 2; the repulsive loop of an epoch with stride s
\* visits exactly the prepared edges whose index is congruent to epoch mod s, so that
\* of s consecutive epochs with stride s exactly one visits a given edge; and while
\* progressRatio < fullCoverageRatio it visits every prepared edge.
C19_StridedSamplingRotates ==
    /\ \A k \in DOMAIN epochLog :
          /\ epochLog[k].stride \in {1, 2}
          /\ SampledIn(epochLog[k].epoch)
                 \subseteq { i \in EdgeIndices : i % epochLog[k].stride
                                                   = epochLog[k].epoch % epochLog[k].stride }
          /\ SampledEpoch(k) =>
                 /\ SampledIn(epochLog[k].epoch)
                        = { i \in EdgeIndices : i % epochLog[k].stride
                                                  = epochLog[k].epoch % epochLog[k].stride }
                 /\ InFullCoverage(k) => SampledIn(epochLog[k].epoch) = EdgeIndices
    /\ \A k \in DOMAIN epochLog :
          LET s == epochLog[k].stride
              run == k..(k + s - 1)
          IN  (/\ k + s - 1 <= Len(epochLog)
               /\ \A j \in run : epochLog[j].stride = s /\ SampledEpoch(j))
              => \A i \in EdgeIndices :
                    Cardinality({ j \in run : i \in SampledIn(epochLog[j].epoch) }) = 1

\* A run on 9000 nodes and three prepared edges has ended its six epochs: the first
\* visited every edge, the third the edges 0 and 2, the fourth edge 1.
C19_Witness ==
    /\ pc = "return"
    /\ sgdNodeCount = 9000
    /\ preparedEdgeCount = 3
    /\ Len(epochLog) = 6
    /\ epochLog[1].stride = 1 /\ SampledIn(0) = {0, 1, 2}
    /\ epochLog[3].stride = 2 /\ SampledIn(2) = {0, 2}
    /\ epochLog[4].stride = 2 /\ SampledIn(3) = {1}


\* The doubles initialAlpha and finalAlpha of the run, and the alpha of the k-th epoch.
InitialAlpha == FromMilli(locals.epochSettings.initialAlpha)
FinalAlpha == FromMilli(locals.epochSettings.finalAlpha)
AlphaOf(k) == epochLog[k].alpha

\* epoch / (totalEpochs - 1) <= 0.2 for the k-th epoch.
InFrontLoad(k) == epochLog[k].epoch * Unit <= FRONTLOAD_RATIO * (totalEpochs - 1)

\* The alpha of the k-th epoch is initialAlpha while epoch / (totalEpochs - 1) <= 0.2.
HeldAtInitialAlpha(k) == (totalEpochs >= 2 /\ InFrontLoad(k)) => AlphaOf(k) = InitialAlpha

\* The alpha of the last epoch, and of the single epoch of a run of one, is finalAlpha.
EndsAtFinalAlpha(k) == epochLog[k].epoch = totalEpochs - 1 => AlphaOf(k) = FinalAlpha

\* The alpha of the k-th epoch is at most the alpha of the epoch before it.
NotAbovePrevious(k) == k > 1 => FLessEq(AlphaOf(k), AlphaOf(k - 1))

\* The alpha of the k-th epoch lies in [finalAlpha, initialAlpha].
WithinAlphaRange(k) == FLessEq(FinalAlpha, AlphaOf(k)) /\ FLessEq(AlphaOf(k), InitialAlpha)

\* C20: for totalEpochs >= 2 the alpha of an epoch is initialAlpha while
\* epoch / (totalEpochs - 1) <= 0.2 and finalAlpha in the last epoch; when
\* finalAlpha <= initialAlpha it never rises from an epoch to the next and lies in
\* [finalAlpha, initialAlpha]; the single epoch of a run of one epoch uses finalAlpha.
C20_AlphaHeldThenEasedToFinal ==
    \A k \in DOMAIN epochLog :
        /\ HeldAtInitialAlpha(k)
        /\ EndsAtFinalAlpha(k)
        /\ FLessEq(FinalAlpha, InitialAlpha) => NotAbovePrevious(k) /\ WithinAlphaRange(k)


(***************************************************************************)
(* Claims about the search of calibrateSigma (under SpecSearch)            *)
(***************************************************************************)

\* A finite sigma > 0.
PositiveFinite(x) == IsFinite(x) /\ ~IsZero(x)

\* C21: the search makes at most 64 passes of its loop for every neighbor list and
\* every k, k <= 0 included, and the sigma it returns is finite and greater than 0;
\* a pass whose new midpoint is 0 or not finite is the last one and leaves sigma 1.0.
C21_SearchEndsWithPositiveSigma ==
    /\ search.passes <= MaxIterations
    /\ PositiveFinite(search.mid)
    /\ search.pc = "done" => wSigma = search.mid
    /\ search.reset => search.pc \in {"return", "done"} /\ search.mid = FOne

\* A search for k <= 0 has used all 64 passes and returned 2^64.
C21_Witness ==
    /\ search.pc = "done"
    /\ wK <= 0
    /\ search.passes = MaxIterations
    /\ search.iter = MaxIterations
    /\ PositiveFinite(wSigma)
    /\ LeadExp(wSigma) = MaxIterations


(***************************************************************************)
(* Claims about the force updates (under SpecForces)                       *)
(***************************************************************************)

\* The calls made, and the k-th of them.
ForceCalls == DOMAIN forceCall.log
ForceCallAt(k) == forceCall.log[k]

\* C22: the gradient step an attractive update adds to a coordinate of its source and
\* subtracts from that of its target is at most 4.0 in absolute value, for every
\* separation of the two nodes.
C22_AttractiveStepAtMostFour ==
    \A k \in ForceCalls :
        ForceCallAt(k).kind = "attractive" =>
            /\ Abs(ForceCallAt(k).moves.step[1]) <= 4 * Grid
            /\ Abs(ForceCallAt(k).moves.step[2]) <= 4 * Grid


\* The sum of the x and of the y coordinates of an array of nodes.
RECURSIVE SumOf(_, _, _)
SumOf(nodes, field, i) ==
    IF i > Len(nodes) THEN 0 ELSE nodes[i][field] + SumOf(nodes, field, i + 1)

\* The vector by which a call displaced the node with a given index.
Displacement(call, index) ==
    << At(call.after, index).x - At(call.before, index).x,
       At(call.after, index).y - At(call.before, index).y >>

\* C23: an attractive and a repulsive update change the positions of their two nodes
\* only and displace them by opposite vectors, so that the sum of the x and the sum
\* of the y coordinates of all nodes are after the update what they were before it;
\* a repulsive update of a node against itself changes nothing.
C23_UpdatesMoveTwoNodesOppositely ==
    \A k \in ForceCalls :
        LET call == ForceCallAt(k)
        IN  /\ \A i \in 0..(Len(call.before) - 1) :
                  i \notin {call.source, call.target} => At(call.after, i) = At(call.before, i)
            /\ \A i \in 0..(Len(call.before) - 1) : At(call.after, i).id = At(call.before, i).id
            /\ call.source # call.target =>
                  /\ Displacement(call, call.source)[1] = -Displacement(call, call.target)[1]
                  /\ Displacement(call, call.source)[2] = -Displacement(call, call.target)[2]
            /\ SumOf(call.after, "x", 1) = SumOf(call.before, "x", 1)
            /\ SumOf(call.after, "y", 1) = SumOf(call.before, "y", 1)
            /\ (call.kind = "repulsive" /\ call.source = call.target) =>
                  call.after = call.before

\* An attractive update that pushed and pulled its two nodes, followed by a repulsive
\* update of a node against itself.
C23_Witness ==
    /\ Len(forceCall.log) = 2
    /\ ForceCallAt(1).kind = "attractive"
    /\ ForceCallAt(1).moves.push # <<0, 0>>
    /\ ForceCallAt(1).moves.step # <<0, 0>>
    /\ Displacement(ForceCallAt(1), ForceCallAt(1).source) # <<0, 0>>
    /\ ForceCallAt(2).kind = "repulsive"
    /\ ForceCallAt(2).source = ForceCallAt(2).target
    /\ sgdNodes = ForceCallAt(2).before

(***************************************************************************)
(* Specification SpecShared: two runLayout calls with the same array of    *)
(* nodes, interleaved at their awaits.  Objects are kept by reference:     *)
(* heap.objects holds the node objects and heap.arrays the arrays, each    *)
(* array a sequence of references to objects.  A run executes from one     *)
(* await to the next without interruption (turn), and a timeout of 0 ms    *)
(* fires when no run is executing.  Date.now() and the counters of the     *)
(* progress throttle are left out: in an epoch that is not the final one   *)
(* the callback is invoked or not.                                         *)
(***************************************************************************)

\* Most epochs of a run of the two.
MaxRunEpochs == 2

Runs == 1..2

\* The reference of the array the caller passes to both calls.
InputRef == 1

RunOptions ==
    [ epochs : 1..MaxRunEpochs, negativeSampleRate : {1}, onProgress : {"function"} ]
    \cup [ epochs : 1..MaxRunEpochs, negativeSampleRate : {1} ]

\* The values of the nodes of the array at ref, in the order of the array.
Deref(h, ref) == [i \in DOMAIN h.arrays[ref] |-> h.objects[h.arrays[ref][i]]]

\* The references of the nodes of the array at ref.
ObjectsOf(h, ref) == { h.arrays[ref][i] : i \in DOMAIN h.arrays[ref] }

\* The assignments to the fields of the nodes of the array at ref.
Store(h, ref, values) ==
    [h EXCEPT !.objects =
        [o \in DOMAIN h.objects |->
            IF o \in ObjectsOf(h, ref)
            THEN values[CHOOSE i \in DOMAIN h.arrays[ref] : h.arrays[ref][i] = o]
            ELSE h.objects[o]]]

\* A new array (the literal [] of line 95 when refs is empty).
NewArray(h, refs) ==
    [heap |-> [h EXCEPT !.arrays = Append(h.arrays, refs)], ref |-> Len(h.arrays) + 1]

\* [...nodes]: a new array of the same node objects.
spreadNodes(h, ref) == NewArray(h, h.arrays[ref])

\* nodes.map((node) => ({ id: node.id, x: node.x, y: node.y })): a new object for every
\* node, with the values of its three fields, and a new array of the new objects.
mapNodes(h, ref) ==
    LET old    == h.arrays[ref]
        copies == [i \in DOMAIN old |-> [id |-> h.objects[old[i]].id,
                                         x  |-> h.objects[old[i]].x,
                                         y  |-> h.objects[old[i]].y]]
        fresh  == [i \in DOMAIN old |-> Len(h.objects) + i]
    IN  NewArray([h EXCEPT !.objects = h.objects \o copies], fresh)

\* Lines 51-57 and 62-68, on references.
toSgdNodesIn(h, ref) == mapNodes(h, ref)

toLayoutNodesIn(h, ref) == mapNodes(h, ref)

\* The array a run hands out: to the callback (progress) or to the promise (result),
\* with the values its nodes had then.
Handed(r, kind, out) ==
    [run |-> r, kind |-> kind, ref |-> out.ref, nodes |-> Deref(out.heap, out.ref)]

\* The values of one epoch of a run (lines 139-153).
RunTotal(run) == run.locals.epochSettings.totalEpochs
RunRatio(run) == ProgressRatio(run.epoch, RunTotal(run))
RunFinal(run) == IsFinalEpoch(run.epoch, RunTotal(run))
RunAlpha(run) ==
    ToMilli(computeFrontLoadedAlpha(RunRatio(run), run.locals.epochSettings.initialAlpha,
                                    run.locals.epochSettings.finalAlpha))
RunSampleRatio(run) ==
    IF RunRatio(run).num * Unit < run.locals.fullCoverageRatio * RunRatio(run).den
    THEN Unit ELSE run.locals.repulsionEdgeSample
RunStride(run) ==
    IF RunSampleRatio(run) >= 999 THEN 1
    ELSE Max(1, (2 * Unit + RunSampleRatio(run)) \div (2 * RunSampleRatio(run)))
RunOffset(run) == IF RunStride(run) = 1 THEN 0 ELSE run.epoch % RunStride(run)

\* A run before its call.
Called(opts) ==
    [ pc |-> "called", opts |-> opts, sgd |-> 0, edges |-> <<>>, locals |-> <<>>,
      epoch |-> 0, edgeIndex |-> 0, sampleCount |-> 0, cancelled |-> FALSE,
      own |-> <<>>, written |-> {} ]

InitShared ==
    /\ \E graph \in InputGraphs \cup { TwoEdgeGraph } :
          /\ given = graph
          /\ heap = [objects |-> graph.nodes,
                     arrays  |-> << [i \in DOMAIN graph.nodes |-> i] >>]
    /\ \E first, second \in RunOptions : runs = << Called(first), Called(second) >>
    /\ handed = <<>>
    /\ turn = 0
    /\ SymOff
    /\ GraphOff
    /\ ScaleOff
    /\ UmapOff
    /\ LayoutOff
    /\ ScheduleOff
    /\ SearchOff
    /\ ForcesOff

\* Lines 94-133 of the call of run r: the early returns, the copies, and the values set
\* before the loop.  The call is made while no run is executing.
RunStart(r) ==
    /\ runs[r].pc = "called"
    /\ turn = 0
    /\ IF Len(heap.arrays[InputRef]) = 0
       THEN LET out == NewArray(heap, <<>>)
            IN  /\ heap' = out.heap
                /\ handed' = Append(handed, Handed(r, "result", out))
                /\ runs' = [runs EXCEPT ![r].pc = "resolved"]
                /\ UNCHANGED turn
       ELSE LET copy     == toSgdNodesIn(heap, InputRef)
                prepared == prepareEdgeList(Deref(copy.heap, copy.ref), given.edges)
            IN  IF Len(prepared) = 0
                THEN LET out == toLayoutNodesIn(copy.heap, copy.ref)
                     IN  /\ heap' = out.heap
                         /\ handed' = Append(handed, Handed(r, "result", out))
                         /\ runs' = [runs EXCEPT ![r].pc = "resolved"]
                         /\ UNCHANGED turn
                ELSE /\ heap' = copy.heap
                     /\ runs' = [runs EXCEPT
                            ![r].pc = "loop",
                            ![r].sgd = copy.ref,
                            ![r].edges = prepared,
                            ![r].locals = Locals(Len(heap.arrays[InputRef]), runs[r].opts),
                            ![r].own = Deref(copy.heap, copy.ref)]
                     /\ turn' = r
                     /\ UNCHANGED handed
    /\ UNCHANGED given
    /\ UNCHANGED <<symVars, graphVars, scaleVars, umapVars, layoutVars, schedVars,
                   searchVars, forceVars>>

\* Lines 136-137 of run r.
RunEpochBegin(r) ==
    /\ runs[r].pc = "loop"
    /\ turn = r
    /\ IF HasEpoch(runs[r].epoch, RunTotal(runs[r])) /\ ~runs[r].cancelled
       THEN runs' = [runs EXCEPT ![r].pc = "attract", ![r].edgeIndex = 0]
       ELSE runs' = [runs EXCEPT ![r].pc = "return"]
    /\ UNCHANGED <<heap, given, handed, turn>>
    /\ UNCHANGED <<symVars, graphVars, scaleVars, umapVars, layoutVars, schedVars,
                   searchVars, forceVars>>

\* Lines 144-147 of run r: one attractive update, on the objects of its sgdNodes.
RunAttractiveStep(r) ==
    /\ runs[r].pc = "attract"
    /\ turn = r
    /\ LET run   == runs[r]
           edge  == run.edges[run.edgeIndex + 1]
           nodes == Deref(heap, run.sgd)
           last  == run.edgeIndex + 1 >= Len(run.edges)
       IN  \E noise \in NoiseFor(nodes, edge.sourceIndex, edge.targetIndex) :
              /\ heap' = Store(heap, run.sgd,
                               applyAttractiveUpdate(nodes, edge, RunAlpha(run),
                                   run.locals.ab, run.locals.minDist, noise))
              /\ runs' = [runs EXCEPT
                     ![r].own = applyAttractiveUpdate(run.own, edge, RunAlpha(run),
                                    run.locals.ab, run.locals.minDist, noise),
                     ![r].written = @ \cup { heap.arrays[run.sgd][edge.sourceIndex + 1],
                                             heap.arrays[run.sgd][edge.targetIndex + 1] },
                     ![r].edgeIndex = IF ~last THEN run.edgeIndex + 1
                                      ELSE IF Len(nodes) > 1 THEN RunOffset(run) ELSE @,
                     ![r].sampleCount = IF last /\ Len(nodes) > 1 THEN 0 ELSE @,
                     ![r].pc = IF ~last THEN "attract"
                               ELSE IF Len(nodes) > 1 THEN "repulse" ELSE "progress"]
    /\ UNCHANGED <<given, handed, turn>>
    /\ UNCHANGED <<symVars, graphVars, scaleVars, umapVars, layoutVars, schedVars,
                   searchVars, forceVars>>

\* Lines 156-170 of run r: one test of the two repulsive loops, or one draw of a random
\* index with the update on the objects of its sgdNodes.
RunRepulsiveStep(r) ==
    /\ runs[r].pc = "repulse"
    /\ turn = r
    /\ LET run   == runs[r]
           nodes == Deref(heap, run.sgd)
       IN  IF run.edgeIndex >= Len(run.edges)
           THEN runs' = [runs EXCEPT ![r].pc = "progress"] /\ UNCHANGED heap
           ELSE IF run.sampleCount >= run.locals.epochSettings.negativeSampleRate
           THEN /\ runs' = [runs EXCEPT ![r].edgeIndex = @ + RunStride(run),
                                        ![r].sampleCount = 0]
                /\ UNCHANGED heap
           ELSE \E randomIndex \in 0..(Len(nodes) - 1) :
                LET edge == run.edges[run.edgeIndex + 1]
                IN  IF SkipsSample(randomIndex, edge)
                    THEN /\ runs' = [runs EXCEPT ![r].sampleCount = @ + 1]
                         /\ UNCHANGED heap
                    ELSE \E noise \in NoiseFor(nodes, edge.sourceIndex, randomIndex) :
                         /\ heap' = Store(heap, run.sgd,
                                applyRepulsiveUpdate(nodes, edge.sourceIndex, randomIndex,
                                    RunAlpha(run), run.locals.ab,
                                    run.locals.epochSettings.repulsionStrength, noise))
                         /\ runs' = [runs EXCEPT
                                ![r].own = applyRepulsiveUpdate(run.own, edge.sourceIndex,
                                    randomIndex, RunAlpha(run), run.locals.ab,
                                    run.locals.epochSettings.repulsionStrength, noise),
                                ![r].written = @ \cup
                                    { heap.arrays[run.sgd][edge.sourceIndex + 1],
                                      heap.arrays[run.sgd][randomIndex + 1] },
                                ![r].sampleCount = @ + 1]
    /\ UNCHANGED <<given, handed, turn>>
    /\ UNCHANGED <<symVars, graphVars, scaleVars, umapVars, layoutVars, schedVars,
                   searchVars, forceVars>>

\* Lines 174-203 of run r.  The callback is given a copy made by toLayoutNodes; when it
\* returns false the loop is left, otherwise the run is suspended at line 200.
RunProgressCheck(r) ==
    /\ runs[r].pc = "progress"
    /\ turn = r
    /\ \E invoked \in BOOLEAN :
          /\ invoked => "onProgress" \in DOMAIN runs[r].opts
          /\ RunFinal(runs[r]) /\ "onProgress" \in DOMAIN runs[r].opts => invoked
          /\ IF invoked
             THEN LET out == toLayoutNodesIn(heap, runs[r].sgd)
                  IN  /\ heap' = out.heap
                      /\ handed' = Append(handed, Handed(r, "progress", out))
                      /\ \E returned \in { "false", "undefined" } :
                            IF returned = "false"
                            THEN /\ runs' = [runs EXCEPT ![r].cancelled = TRUE,
                                                         ![r].pc = "return"]
                                 /\ UNCHANGED turn
                            ELSE /\ runs' = [runs EXCEPT ![r].pc = "awaitProgress"]
                                 /\ turn' = 0
             ELSE /\ runs' = [runs EXCEPT ![r].pc = "periodic"]
                  /\ UNCHANGED <<heap, handed, turn>>
    /\ UNCHANGED given
    /\ UNCHANGED <<symVars, graphVars, scaleVars, umapVars, layoutVars, schedVars,
                   searchVars, forceVars>>

\* Line 200 of run r: the timeout fires while no run is executing.
RunResumeAfterProgress(r) ==
    /\ runs[r].pc = "awaitProgress"
    /\ turn = 0
    /\ runs' = [runs EXCEPT ![r].pc = "periodic"]
    /\ turn' = r
    /\ UNCHANGED <<heap, given, handed>>
    /\ UNCHANGED <<symVars, graphVars, scaleVars, umapVars, layoutVars, schedVars,
                   searchVars, forceVars>>

\* Lines 206-208 of run r, and the epoch++ of line 136 when the epoch does not yield.
RunPeriodicYield(r) ==
    /\ runs[r].pc = "periodic"
    /\ turn = r
    /\ IF YieldsAt(runs[r].epoch)
       THEN runs' = [runs EXCEPT ![r].pc = "awaitPeriodic"] /\ turn' = 0
       ELSE runs' = [runs EXCEPT ![r].pc = "loop", ![r].epoch = @ + 1] /\ UNCHANGED turn
    /\ UNCHANGED <<heap, given, handed>>
    /\ UNCHANGED <<symVars, graphVars, scaleVars, umapVars, layoutVars, schedVars,
                   searchVars, forceVars>>

\* Line 207 of run r: the timeout fires while no run is executing; then the epoch++.
RunResumeAfterYield(r) ==
    /\ runs[r].pc = "awaitPeriodic"
    /\ turn = 0
    /\ runs' = [runs EXCEPT ![r].pc = "loop", ![r].epoch = @ + 1]
    /\ turn' = r
    /\ UNCHANGED <<heap, given, handed>>
    /\ UNCHANGED <<symVars, graphVars, scaleVars, umapVars, layoutVars, schedVars,
                   searchVars, forceVars>>

\* Line 211 of run r: the promise resolves to a copy made by toLayoutNodes.
RunReturn(r) ==
    /\ runs[r].pc = "return"
    /\ turn = r
    /\ LET out == toLayoutNodesIn(heap, runs[r].sgd)
       IN  /\ heap' = out.heap
           /\ handed' = Append(handed, Handed(r, "result", out))
    /\ runs' = [runs EXCEPT ![r].pc = "resolved"]
    /\ turn' = 0
    /\ UNCHANGED given
    /\ UNCHANGED <<symVars, graphVars, scaleVars, umapVars, layoutVars, schedVars,
                   searchVars, forceVars>>

NextShared ==
    \E r \in Runs :
        \/ RunStart(r)
        \/ RunEpochBegin(r)
        \/ RunAttractiveStep(r)
        \/ RunRepulsiveStep(r)
        \/ RunProgressCheck(r)
        \/ RunResumeAfterProgress(r)
        \/ RunPeriodicYield(r)
        \/ RunResumeAfterYield(r)
        \/ RunReturn(r)

SpecShared == InitShared /\ [][NextShared]_vars

(***************************************************************************)
(* Claims about the termination of runLayout (under SpecLayoutFair).       *)
(***************************************************************************)

\* The promise of the run has resolved (line 211 or the early returns of 105-129).
Terminal == pc = "resolved"

\* The loop of line 136 was left and no epoch can begin any more.
LeftLoop == pc \in {"return", "resolved"}

\* The epochs in which force updates were applied, in the order of the updates.
EpochsInOrder ==
    \A m, n \in DOMAIN updates : m <= n => updates[m].epoch <= updates[n].epoch

\* No force update lies in an epoch outside 0..totalEpochs-1, and the counter never
\* passes totalEpochs.
WithinTotalEpochs ==
    Live /\ pc \notin {"off", "called"} =>
        /\ epoch <= Max(0, totalEpochs)
        /\ \A n \in DOMAIN updates : updates[n].epoch \in 0..(totalEpochs - 1)

\* A step either keeps the epoch counter or adds one to it, it adds one only at the end
\* of the epoch it counted, and after the loop was left nothing is executed.
EpochStep ==
    /\ epoch' \in {epoch, epoch + 1}
    /\ \A n \in DOMAIN updates' \ DOMAIN updates : updates'[n].epoch = epoch
    /\ epoch' = epoch + 1 => pc \in {"periodic", "awaitPeriodic"} /\ pc' = "loop"
    /\ LeftLoop => /\ epoch' = epoch
                   /\ updates' = updates
                   /\ sgdNodes' = sgdNodes
                   /\ calls' = calls
                   /\ pc' = "resolved"

\* C24: every run whose callback returns and whose yields are resumed resolves, after
\* executing at most totalEpochs epochs; the epoch counter only ever grows by one at the
\* end of an epoch, so no epoch is executed twice, and nothing is executed after the
\* loop was left.
C24_RunResolvesWithinTotalEpochs ==
    /\ <>Terminal
    /\ [](WithinTotalEpochs /\ EpochsInOrder)
    /\ [][EpochStep]_vars

\* A run that executed all of its MaxEpochs epochs and resolved.
C24_Witness ==
    /\ Terminal
    /\ Live
    /\ ~cancelled
    /\ totalEpochs = MaxEpochs
    /\ epoch = totalEpochs
    /\ \A e \in 0..(totalEpochs - 1) : \E n \in DOMAIN updates : updates[n].epoch = e

(***************************************************************************)
(* Claims about two runs on one array of nodes (under SpecShared).         *)
(***************************************************************************)

\* Run r has made its copy of the nodes.
Started(r) == runs[r].sgd # 0

\* The node objects a run works on, and those of all arrays handed out.
Working(r) == IF Started(r) THEN ObjectsOf(heap, runs[r].sgd) ELSE {}

\* The caller's array holds the objects it held at the calls, with the values they had.
InputUntouched ==
    /\ heap.arrays[InputRef] = [i \in DOMAIN given.nodes |-> i]
    /\ Deref(heap, InputRef) = given.nodes
    /\ \A r \in Runs : runs[r].written \cap ObjectsOf(heap, InputRef) = {}

\* Every array handed to a callback or resolved to is an array of its own, of objects of
\* its own, which no run works on or has written, and has the values it was handed with.
HandedAreCopies ==
    \A n \in DOMAIN handed :
        /\ Deref(heap, handed[n].ref) = handed[n].nodes
        /\ handed[n].ref # InputRef
        /\ ObjectsOf(heap, handed[n].ref) \cap ObjectsOf(heap, InputRef) = {}
        /\ \A r \in Runs :
              /\ handed[n].ref # runs[r].sgd
              /\ ObjectsOf(heap, handed[n].ref) \cap (Working(r) \cup runs[r].written) = {}
        /\ \A m \in DOMAIN handed :
              m # n => /\ handed[m].ref # handed[n].ref
                       /\ ObjectsOf(heap, handed[m].ref)
                              \cap ObjectsOf(heap, handed[n].ref) = {}

\* Each run reads and writes objects of its own only: its positions are those its own
\* updates produced, whatever the other run did in between.
RunsAreSeparate ==
    \A r \in Runs :
        Started(r) =>
            /\ runs[r].sgd # InputRef
            /\ Working(r) \cap ObjectsOf(heap, InputRef) = {}
            /\ runs[r].written \subseteq Working(r)
            /\ Deref(heap, runs[r].sgd) = runs[r].own
            /\ \A s \in Runs \ {r} :
                  /\ runs[s].sgd # runs[r].sgd
                  /\ Working(s) \cap Working(r) = {}
                  /\ runs[s].written \cap Working(r) = {}

\* C25: runLayout never writes the caller's array of nodes or its node objects; the
\* arrays passed to the callback and resolved to are copies no later epoch modifies; two
\* runs on the same array, interleaved at their awaits, work on separate objects.
C25_RunsShareNoNodes ==
    /\ InputUntouched
    /\ HandedAreCopies
    /\ RunsAreSeparate

\* Both runs have resolved after moving their nodes to different positions, and the
\* callbacks of the one were invoked between those of the other.
C25_Witness ==
    /\ \A r \in Runs : runs[r].pc = "resolved" /\ runs[r].written # {}
    /\ runs[1].own # runs[2].own
    /\ runs[1].own # given.nodes
    /\ \E i, j, k \in DOMAIN handed :
          /\ i < j /\ j < k
          /\ handed[i].run = 1 /\ handed[i].kind = "progress"
          /\ handed[j].run = 2 /\ handed[j].kind = "progress"
          /\ handed[k].run = 1 /\ handed[k].kind = "progress"

==============================================================================
